---------------------------- MODULE Spec2Model ----------------------------
(***************************************************************************)
(* Review-workflow and consensus engine of                                 *)
(* src/collaboration/collaboration_system.py (class WorkflowManager).      *)
(*                                                                         *)
(* Scheduling.  The service is one uvicorn process with one event loop     *)
(* (lines 1334-1336) and one SQLAlchemy session shared by every request    *)
(* (startup, lines 1240-1247).  Every coroutine a WorkflowManager handler  *)
(* awaits (lines 306-309, 336, 361, 422-425, 449-455, 505, 541) returns    *)
(* without suspending: the _notify_* coroutines only log (607-630), and    *)
(* the store and Redis calls are blocking.  A handler that has started     *)
(* therefore runs to its return before any other handler starts; the       *)
(* concurrency of the service is the order in which the event loop starts  *)
(* the requests that are in flight.  calls[c] is the position of client    *)
(* c's request: idle, pending (accepted, handler not started) or done.     *)
(* Spec has one client, whose requests follow one another; SpecRace has    *)
(* two clients, whose requests may be in flight together.  SpecPanel       *)
(* follows one workflow with three assigned reviewers, SpecUnchecked adds  *)
(* settings outside their range, SpecFault lets the Redis call of line 495 *)
(* fail, and SpecOutliers applies ConsensusManager.identify_outliers to    *)
(* lists of reviews.                                                       *)
(*                                                                         *)
(* Numbers.  risk_assessment, confidence_score and consensus_threshold are *)
(* Float columns; the model keeps them in hundredths (Scale) and computes  *)
(* means, variances and scores as exact fractions [num, den].  An optional *)
(* column is None (the empty tuple) or Some(v) (a one-element tuple).      *)
(***************************************************************************)
EXTENDS Integers, Sequences, FiniteSets, Bags, TLC

\* ------------------------------------------------------------- bounds ----
MaxWorkflows == 1
MaxAssignments == 2

\* ------------------------------------------------------- program data ----
Scale == 100

None == << >>
Some(v) == << v >>
IsSome(x) == x # << >>

PENDING == "pending"
IN_PROGRESS == "in_progress"
COMPLETED == "completed"
DISPUTED == "disputed"
CONSENSUS_REACHED == "consensus_reached"
ReviewStatus == {PENDING, IN_PROGRESS, COMPLETED, DISPUTED, CONSENSUS_REACHED}

LEAD_REVIEWER == "lead_reviewer"
REVIEWER == "reviewer"

\* rows of the users table: reviewer id -> expertise_areas
Users == {1, 2, 3}
Expertise == (1 :> {"ml"}) @@ (2 :> {"ml", "bio"}) @@ (3 :> {"bio"})

\* settings dictionaries handed to create_workflow
WorkflowSettings ==
    { [min_reviewers |-> 2, require_consensus |-> TRUE, consensus_threshold |-> 70,
       auto_assign |-> FALSE, expertise_required |-> {}],
      [min_reviewers |-> 1, require_consensus |-> TRUE, consensus_threshold |-> 100,
       auto_assign |-> FALSE, expertise_required |-> {}],
      [min_reviewers |-> 2, require_consensus |-> FALSE, consensus_threshold |-> 70,
       auto_assign |-> FALSE, expertise_required |-> {}],
      [min_reviewers |-> 2, require_consensus |-> TRUE, consensus_threshold |-> 70,
       auto_assign |-> TRUE, expertise_required |-> {"ml"}] }

\* review_data dictionaries handed to submit_review
ReviewPayloads ==
    { [risk_assessment |-> Some(10), confidence_score |-> Some(80), recommendation |-> Some("approve")],
      [risk_assessment |-> Some(90), confidence_score |-> None, recommendation |-> Some("reject")],
      [risk_assessment |-> None, confidence_score |-> Some(0), recommendation |-> None] }

Clients == {"c1", "c2"}

VARIABLES
    workflows,      \* review_workflows table: sequence of rows, id = index
    assignments,    \* review_assignments table
    reviews,        \* reviews table
    decisions,      \* review_decisions table
    events,         \* bag of notification events emitted so far
    votes,          \* review_votes table
    dirty,          \* the shared session holds a write it has not committed
    early,          \* the events that were emitted while it did
    calls           \* per client: the request in flight and its response

vars == << workflows, assignments, reviews, decisions, events, votes, dirty, early, calls >>

\* the store as one value, so that handlers compose as functions
DB == [workflows |-> workflows, assignments |-> assignments, reviews |-> reviews,
       decisions |-> decisions, events |-> events, votes |-> votes, dirty |-> dirty,
       early |-> early]

\* ------------------------------------------------------------ helpers ----
RECURSIVE SumSeq(_)
SumSeq(s) == IF s = << >> THEN 0 ELSE Head(s) + SumSeq(Tail(s))

Range(s) == { s[i] : i \in DOMAIN s }

\* self.db.commit()
Commit(d) == [d EXCEPT !.dirty = FALSE]

Emit(d, type, id) ==
    [d EXCEPT !.events = @ (+) SetToBag({[type |-> type, id |-> id]}),
              !.early = IF d.dirty THEN @ \cup {[type |-> type, id |-> id]} ELSE @]

Frac(n, d) == [num |-> n, den |-> d]
FracGE(a, b) == a.num * b.den >= b.num * a.den
FracGT(a, b) == a.num * b.den > b.num * a.den

\* Python's seq[:m] for any integer m
SliceTo(s, m) ==
    IF m >= 0 THEN SubSeq(s, 1, IF m < Len(s) THEN m ELSE Len(s))
    ELSE SubSeq(s, 1, IF Len(s) + m > 0 THEN Len(s) + m ELSE 0)

\* query(Review).join(ReviewAssignment).filter(workflow_id == wid).all()
WorkflowReviews(d, wid) ==
    SelectSeq(d.reviews, LAMBDA r : d.assignments[r.assignment_id].workflow_id = wid)

\* ------------------------------------------------ assignment planner ----
\* ValueError("Reviewer already assigned to this workflow") is DuplicateAssignment
M_ExistingAssignment_Never(d, wid, rid) == FALSE

\* query(ReviewAssignment).filter_by(workflow_id, reviewer_id).first()
ExistingAssignment(d, wid, rid) ==
    \E i \in DOMAIN d.assignments :
        /\ d.assignments[i].workflow_id = wid
        /\ d.assignments[i].reviewer_id = rid

M_AssignReviewer_StartsWorkflow(d, wid, rid, role) ==
    IF ExistingAssignment(d, wid, rid)
    THEN [db |-> d, result |-> "DuplicateAssignment"]
    ELSE [db |-> Emit(Commit([d EXCEPT
                                !.assignments = Append(@, [workflow_id |-> wid,
                                                           reviewer_id |-> rid,
                                                           role |-> role,
                                                           completed |-> FALSE]),
                                !.workflows[wid].status = IN_PROGRESS]),
                      "ReviewInvitationSent", Len(d.assignments) + 1),
          result |-> "ok"]

AssignReviewer(d, wid, rid, role) ==
    LET existing == ExistingAssignment(d, wid, rid)
        aid == Len(d.assignments) + 1
        row == [workflow_id |-> wid, reviewer_id |-> rid, role |-> role,
                completed |-> FALSE]
    IN  IF existing
        THEN [db |-> d, result |-> "DuplicateAssignment"]
        ELSE [db |-> Emit(Commit([d EXCEPT !.assignments = Append(@, row)]),
                          "ReviewInvitationSent", aid),
              result |-> "ok"]

M_CalculateReviewerScore_CountsCompleted(d, rid, expertise_required) ==
    LET past == SelectSeq(d.reviews, LAMBDA r : r.reviewer_id = rid)
        confs == [i \in DOMAIN past |->
                    IF IsSome(past[i].confidence_score)
                    THEN past[i].confidence_score[1] ELSE 0]
        base == Cardinality(Expertise[rid] \cap expertise_required) * 10
                - 2 * Cardinality({i \in DOMAIN d.assignments :
                                     d.assignments[i].reviewer_id = rid})
    IN  IF past = << >>
        THEN Frac(base, 1)
        ELSE Frac(base * Scale * Len(past) + 5 * SumSeq(confs), Scale * Len(past))

\* suitability score as an exact fraction
CalculateReviewerScore(d, rid, expertise_required) ==
    LET overlap == Expertise[rid] \cap expertise_required
        past == SelectSeq(d.reviews, LAMBDA r : r.reviewer_id = rid)
        confs == [i \in DOMAIN past |->
                    IF IsSome(past[i].confidence_score)
                    THEN past[i].confidence_score[1] ELSE 0]
        active == Cardinality({i \in DOMAIN d.assignments :
                                /\ d.assignments[i].reviewer_id = rid
                                /\ ~d.assignments[i].completed})
        base == Cardinality(overlap) * 10 - active * 2
    IN  IF past = << >>
        THEN Frac(base, 1)
        ELSE Frac(base * Scale * Len(past) + 5 * SumSeq(confs), Scale * Len(past))

\* list.sort(key=score, reverse=True): stable, so equal scores keep the order
\* in which the store returned the rows
RECURSIVE SortByScore(_, _, _)
InsertByScore(d, req, sorted, u) ==
    LET su == CalculateReviewerScore(d, u, req)
        before == {i \in DOMAIN sorted :
                     FracGE(CalculateReviewerScore(d, sorted[i], req), su)}
        k == Cardinality(before)
    IN  SubSeq(sorted, 1, k) \o << u >> \o SubSeq(sorted, k + 1, Len(sorted))
SortByScore(d, req, order) ==
    IF order = << >> THEN << >>
    ELSE InsertByScore(d, req, SortByScore(d, req, SubSeq(order, 1, Len(order) - 1)),
                       order[Len(order)])

RECURSIVE AssignAll(_, _, _, _)
AssignAll(d, wid, chosen, i) ==
    IF i > Len(chosen) THEN [db |-> d, result |-> "ok"]
    ELSE LET r == AssignReviewer(d, wid, chosen[i],
                                 IF i = 1 THEN LEAD_REVIEWER ELSE REVIEWER)
         IN  IF r.result # "ok" THEN r ELSE AssignAll(r.db, wid, chosen, i + 1)

\* User.expertise_areas.contains(expertise_required)
Eligible(expertise_required) == {u \in Users : expertise_required \subseteq Expertise[u]}

M_AutoAssignReviewers_Unsorted(d, wid, expertise_required, order) ==
    AssignAll(d, wid, SliceTo(order, d.workflows[wid].min_reviewers), 1)

\* order: the eligible rows in the order the store returned them
AutoAssignReviewers(d, wid, expertise_required, order) ==
    LET scored == SortByScore(d, expertise_required, order)
        chosen == SliceTo(scored, d.workflows[wid].min_reviewers)
    IN  AssignAll(d, wid, chosen, 1)

CreateWorkflow(d, settings, order) ==
    LET wid == Len(d.workflows) + 1
        row == [status |-> PENDING,
                consensus_threshold |-> settings.consensus_threshold,
                require_consensus |-> settings.require_consensus,
                min_reviewers |-> settings.min_reviewers]
        d1 == Commit([d EXCEPT !.workflows = Append(@, row)])
        r == IF settings.auto_assign
             THEN AutoAssignReviewers(d1, wid, settings.expertise_required, order)
             ELSE [db |-> d1, result |-> "ok"]
    IN  IF r.result # "ok" THEN r
        ELSE [db |-> Emit(r.db, "WorkflowCreated", wid), result |-> "ok"]

\* ----------------------------------------------- consensus calculator ----
M_max_variance_Unit == Frac(1, 1)

max_variance == Frac(1, 4)

M_VarianceConsensus_NoFloor(risk_scores) ==
    LET n == Len(risk_scores)
        total == SumSeq(risk_scores)
        sq == SumSeq([i \in DOMAIN risk_scores |->
                        (n * risk_scores[i] - total) * (n * risk_scores[i] - total)])
        den_v == n * n * n * Scale * Scale
        num_q == sq * max_variance.den
        den_q == den_v * max_variance.num
    IN  Frac(den_q - num_q, den_q)

\* max(0, 1 - variance / max_variance) of a non-empty list of risks (hundredths)
VarianceConsensus(risk_scores) ==
    LET n == Len(risk_scores)
        total == SumSeq(risk_scores)
        \* score - mean_risk = (n * score - total) / (n * Scale)
        sq == SumSeq([i \in DOMAIN risk_scores |->
                        (n * risk_scores[i] - total) * (n * risk_scores[i] - total)])
        \* variance = sq / den_v ; variance / max_variance = num_q / den_q
        den_v == n * n * n * Scale * Scale
        num_q == sq * max_variance.den
        den_q == den_v * max_variance.num
    IN  IF den_q - num_q > 0 THEN Frac(den_q - num_q, den_q) ELSE Frac(0, den_q)

M_CalculateConsensus_CountsEmptyLabel(revs) ==
    IF revs = << >> THEN Frac(0, 1)
    ELSE
    LET scored == SelectSeq(revs, LAMBDA r : r.risk_assessment # None)
        risk_scores == [i \in DOMAIN scored |-> scored[i].risk_assessment[1]]
        recommendations == {revs[i].recommendation[1] :
                              i \in {j \in DOMAIN revs : revs[j].recommendation # None}}
        k == Cardinality(recommendations)
    IN  IF Len(risk_scores) < 2 THEN Frac(1, 1)
        ELSE LET consensus == VarianceConsensus(risk_scores)
             IN  IF k > 0
                 THEN Frac(consensus.num * k + consensus.den, 2 * k * consensus.den)
                 ELSE consensus

CalculateConsensus(revs) ==
    IF revs = << >> THEN Frac(0, 1)
    ELSE
    LET scored == SelectSeq(revs, LAMBDA r : r.risk_assessment # None)
        risk_scores == [i \in DOMAIN scored |-> scored[i].risk_assessment[1]]
        recommendations == {revs[i].recommendation[1] :
                              i \in {j \in DOMAIN revs : /\ revs[j].recommendation # None
                                                         /\ revs[j].recommendation # Some("")}}
        k == Cardinality(recommendations)
    IN  IF Len(risk_scores) < 2 THEN Frac(1, 1)
        ELSE LET consensus == VarianceConsensus(risk_scores)
             IN  IF k > 0
                 THEN Frac(consensus.num * k + consensus.den, 2 * k * consensus.den)
                 ELSE consensus

\* ---------------------------------------------------- decision finalizer ----
reject_threshold == Frac(7, 10)
revision_threshold == Frac(4, 10)

M_DecisionLabel_Exclusive(avg_risk) ==
    IF FracGT(avg_risk, reject_threshold) THEN "reject"
    ELSE IF FracGT(avg_risk, revision_threshold) THEN "request_revision"
    ELSE "approve"

DecisionLabel(avg_risk) ==
    IF FracGE(avg_risk, reject_threshold) THEN "reject"
    ELSE IF FracGE(avg_risk, revision_threshold) THEN "request_revision"
    ELSE "approve"

\* Line 519 adds doubles from left to right and divides by len(reviews).
\* Of the lists of up to three of the risks 0.05, 0.1, 0.12, 0.15, 0.25, 0.4,
\* 0.5, 0.8, 0.9, 1.0, 1.5 whose mean is exactly 0.4 or 0.7, these, of three
\* Reviews, add up to the double below 1.2 and their quotient is
\* 0.39999999999999997; every other one compares with 0.4 and 0.7 as its
\* exact mean does.
RoundedBelow ==
    { << 5, 15, 100 >>, << 5, 25, 90 >>, << 5, 100, 15 >>, << 10, 10, 100 >>,
      << 15, 5, 100 >>, << 15, 15, 90 >>, << 15, 90, 15 >>, << 15, 100, 5 >>,
      << 25, 5, 90 >>, << 25, 80, 15 >>, << 25, 90, 5 >>, << 80, 25, 15 >>,
      << 90, 15, 15 >>, << 90, 25, 5 >>, << 100, 5, 15 >>, << 100, 15, 5 >> }

\* denominator of the step by which a rounded quotient lies below the mean
Ulps == 1000

\* sum(r.risk_assessment for r in reviews if r.risk_assessment) / len(reviews)
AvgRisk(revs) ==
    LET truthy == SelectSeq(revs, LAMBDA r : /\ r.risk_assessment # None
                                              /\ r.risk_assessment # Some(0))
        risks == [i \in DOMAIN truthy |-> truthy[i].risk_assessment[1]]
    IN  IF Len(revs) = 3 /\ risks \in RoundedBelow
        THEN Frac(SumSeq(risks) * Ulps - 1, Len(revs) * Scale * Ulps)
        ELSE Frac(SumSeq(risks), Len(revs) * Scale)

M_FinalizeWorkflow_NoEvent(d, wid, consensus_score) ==
    LET revs == WorkflowReviews(d, wid)
        row == [workflow_id |-> wid, decision |-> DecisionLabel(AvgRisk(revs)),
                consensus_score |-> consensus_score]
    IN  Commit([d EXCEPT !.decisions = Append(@, row)])

\* consensus_score: None, or Some(fraction)
FinalizeWorkflow(d, wid, consensus_score) ==
    LET revs == WorkflowReviews(d, wid)
        did == Len(d.decisions) + 1
        row == [workflow_id |-> wid, decision |-> DecisionLabel(AvgRisk(revs)),
                consensus_score |-> consensus_score]
    IN  Emit(Commit([d EXCEPT !.decisions = Append(@, row)]), "DecisionMade", did)

\* ------------------------------------------------ workflow state machine ----
\* redisUp: whether the hset of line 495 succeeds; when it raises, the status
\* written at line 451 stays on the shared session's workflow object
InitiateDiscussion(d, wid, redisUp) ==
    IF redisUp THEN [db |-> Emit(d, "DiscussionStarted", wid), result |-> "ok"]
    ELSE [db |-> d, result |-> "RedisError"]

M_QuorumReached_OneEarly(completed_count, min_reviewers) ==
    completed_count + 1 >= min_reviewers

\* if completed_count >= workflow.min_reviewers
QuorumReached(completed_count, min_reviewers) == completed_count >= min_reviewers

M_ConsensusMet_Strict(consensus_score, threshold) == FracGT(consensus_score, threshold)

M_ConsensusMet_Always(consensus_score, threshold) == TRUE

\* if consensus_score >= workflow.consensus_threshold
ConsensusMet(consensus_score, threshold) == FracGE(consensus_score, threshold)

M_CheckWorkflowCompletion_IgnoresFlag(d, wid, redisUp) ==
    LET workflow == d.workflows[wid]
        completed_count == Cardinality({i \in DOMAIN d.assignments :
                                          /\ d.assignments[i].workflow_id = wid
                                          /\ d.assignments[i].completed})
        consensus_score == CalculateConsensus(WorkflowReviews(d, wid))
        threshold == Frac(workflow.consensus_threshold, Scale)
        SetStatus(st) == [d EXCEPT !.workflows[wid].status = st, !.dirty = TRUE]
        discussion == InitiateDiscussion(SetStatus(DISPUTED), wid, redisUp)
    IN  IF QuorumReached(completed_count, workflow.min_reviewers)
        THEN IF ConsensusMet(consensus_score, threshold)
             THEN [db |-> Commit(FinalizeWorkflow(SetStatus(CONSENSUS_REACHED), wid,
                                                  Some(consensus_score))),
                   result |-> "ok"]
             ELSE IF discussion.result # "ok" THEN discussion
                  ELSE [db |-> Commit(discussion.db), result |-> "ok"]
        ELSE [db |-> d, result |-> "ok"]

CheckWorkflowCompletion(d, wid, redisUp) ==
    LET workflow == d.workflows[wid]
        completed_count == Cardinality({i \in DOMAIN d.assignments :
                                          /\ d.assignments[i].workflow_id = wid
                                          /\ d.assignments[i].completed})
        revs == WorkflowReviews(d, wid)
        consensus_score == CalculateConsensus(revs)
        threshold == Frac(workflow.consensus_threshold, Scale)
        SetStatus(st) == [d EXCEPT !.workflows[wid].status = st, !.dirty = TRUE]
        discussion == InitiateDiscussion(SetStatus(DISPUTED), wid, redisUp)
    IN  IF QuorumReached(completed_count, workflow.min_reviewers)
        THEN IF workflow.require_consensus
             THEN IF ConsensusMet(consensus_score, threshold)
                  THEN [db |-> Commit(FinalizeWorkflow(SetStatus(CONSENSUS_REACHED), wid,
                                                       Some(consensus_score))),
                        result |-> "ok"]
                  ELSE IF discussion.result # "ok" THEN discussion
                       ELSE [db |-> Commit(discussion.db), result |-> "ok"]
             ELSE [db |-> Commit(FinalizeWorkflow(SetStatus(COMPLETED), wid, None)),
                   result |-> "ok"]
        ELSE [db |-> d, result |-> "ok"]

\* the Review row and the completed flag of lines 399-419
RecordReview(d, aid, review_data) ==
    Commit(
    [d EXCEPT !.reviews = Append(@, [assignment_id |-> aid,
                                     reviewer_id |-> d.assignments[aid].reviewer_id,
                                     risk_assessment |-> review_data.risk_assessment,
                                     confidence_score |-> review_data.confidence_score,
                                     recommendation |-> review_data.recommendation]),
              !.assignments[aid].completed = TRUE])

M_SubmitReview_NoCompletedCheck(d, aid, review_data, redisUp) ==
    IF aid \notin DOMAIN d.assignments
    THEN [db |-> d, result |-> "AssignmentNotFound"]
    ELSE
    LET r == CheckWorkflowCompletion(RecordReview(d, aid, review_data),
                                     d.assignments[aid].workflow_id, redisUp)
    IN  IF r.result # "ok" THEN r
        ELSE [db |-> Emit(r.db, "ReviewSubmitted", Len(d.reviews) + 1), result |-> "ok"]

M_SubmitReview_FlagNotSet(d, aid, review_data, redisUp) ==
    IF aid \notin DOMAIN d.assignments
    THEN [db |-> d, result |-> "AssignmentNotFound"]
    ELSE IF d.assignments[aid].completed
    THEN [db |-> d, result |-> "AlreadySubmitted"]
    ELSE
    LET d1 == [RecordReview(d, aid, review_data) EXCEPT !.assignments = d.assignments]
        r == CheckWorkflowCompletion(d1, d.assignments[aid].workflow_id, redisUp)
    IN  IF r.result # "ok" THEN r
        ELSE [db |-> Emit(r.db, "ReviewSubmitted", Len(d.reviews) + 1), result |-> "ok"]

M_SubmitReview_RechecksCompletion(d, aid, review_data, redisUp) ==
    IF aid \notin DOMAIN d.assignments
    THEN [db |-> d, result |-> "AssignmentNotFound"]
    ELSE IF d.assignments[aid].completed
    THEN [db |-> CheckWorkflowCompletion(d, d.assignments[aid].workflow_id, redisUp).db,
          result |-> "AlreadySubmitted"]
    ELSE
    LET r == CheckWorkflowCompletion(RecordReview(d, aid, review_data),
                                     d.assignments[aid].workflow_id, redisUp)
    IN  IF r.result # "ok" THEN r
        ELSE [db |-> Emit(r.db, "ReviewSubmitted", Len(d.reviews) + 1), result |-> "ok"]

\* ValueError("Assignment not found") is AssignmentNotFound,
\* ValueError("Review already submitted") is AlreadySubmitted
SubmitReview(d, aid, review_data, redisUp) ==
    IF aid \notin DOMAIN d.assignments
    THEN [db |-> d, result |-> "AssignmentNotFound"]
    ELSE IF d.assignments[aid].completed
    THEN [db |-> d, result |-> "AlreadySubmitted"]
    ELSE
    LET r == CheckWorkflowCompletion(RecordReview(d, aid, review_data),
                                     d.assignments[aid].workflow_id, redisUp)
    IN  IF r.result # "ok" THEN r
        ELSE [db |-> Emit(r.db, "ReviewSubmitted", Len(d.reviews) + 1), result |-> "ok"]

\* ------------------------------------------------------------- requests ----
IdleCall == [state |-> "idle", op |-> "none", arg |-> << >>, result |-> "none",
             finalized |-> FALSE, overlapped |-> FALSE]

Init ==
    /\ workflows = << >>
    /\ assignments = << >>
    /\ reviews = << >>
    /\ decisions = << >>
    /\ events = EmptyBag
    /\ votes = << >>
    /\ dirty = FALSE
    /\ early = {}
    /\ calls = [c \in Clients |-> IdleCall]

Store(d) ==
    /\ workflows' = d.workflows
    /\ assignments' = d.assignments
    /\ reviews' = d.reviews
    /\ decisions' = d.decisions
    /\ events' = d.events
    /\ votes' = d.votes
    /\ dirty' = d.dirty
    /\ early' = d.early

Pending(op) == {c \in Clients : calls[c].state = "pending" /\ calls[c].op = op}

\* a done call's overlapped flag says that the other clients' current requests
\* were in flight when its handler ran; a new request of c ends that
Accept(c, op, arg) ==
    /\ calls[c].state # "pending"
    /\ calls' = [x \in Clients |->
                   IF x = c
                   THEN [state |-> "pending", op |-> op, arg |-> arg, result |-> "none",
                         finalized |-> FALSE, overlapped |-> FALSE]
                   ELSE [calls[x] EXCEPT !.overlapped = FALSE]]
    /\ UNCHANGED << workflows, assignments, reviews, decisions, events, votes, dirty, early >>

Return(c, r) ==
    calls' = [calls EXCEPT ![c].state = "done",
                           ![c].result = r.result,
                           ![c].finalized = Len(r.db.decisions) > Len(decisions),
                           ![c].overlapped =
                               \E x \in Clients \ {c} : calls[x].state = "pending"]

\* POST /api/workflows
RequestCreateWorkflow(c) ==
    /\ Len(workflows) + Cardinality(Pending("create_workflow")) < MaxWorkflows
    /\ Accept(c, "create_workflow", << >>)

\* POST /api/workflows/{workflow_id}/assign
\* (a request for a pair that is already assigned adds no row, so the bound
\* on the table does not hold it back)
RequestAssignReviewer(c) ==
    \E wid \in DOMAIN workflows, rid \in Users :
        /\ \/ Len(assignments) + Cardinality(Pending("assign_reviewer")) < MaxAssignments
           \/ \E i \in DOMAIN assignments : /\ assignments[i].workflow_id = wid
                                             /\ assignments[i].reviewer_id = rid
        /\ Accept(c, "assign_reviewer", << wid, rid >>)

\* POST /api/reviews/submit
RequestSubmitReview(c) ==
    \E aid \in 1..MaxAssignments : Accept(c, "submit_review", << aid >>)

RunCreateWorkflow(c) ==
    /\ calls[c].state = "pending"
    /\ calls[c].op = "create_workflow"
    /\ \E settings \in WorkflowSettings :
       \E order \in {s \in [1..Cardinality(Eligible(settings.expertise_required)) -> Users] :
                        Range(s) = Eligible(settings.expertise_required)} :
          LET r == CreateWorkflow(DB, settings, order)
          IN  /\ Len(r.db.assignments) + Cardinality(Pending("assign_reviewer"))
                    <= MaxAssignments
              /\ Store(r.db)
              /\ Return(c, r)

RunAssignReviewer(c) ==
    /\ calls[c].state = "pending"
    /\ calls[c].op = "assign_reviewer"
    /\ LET r == AssignReviewer(DB, calls[c].arg[1], calls[c].arg[2], REVIEWER)
       IN  /\ Store(r.db)
           /\ Return(c, r)

RunSubmitReview(c) ==
    /\ calls[c].state = "pending"
    /\ calls[c].op = "submit_review"
    /\ \E review_data \in ReviewPayloads :
          LET r == SubmitReview(DB, calls[c].arg[1], review_data, TRUE)
          IN  /\ Store(r.db)
              /\ Return(c, r)

Step(c) ==
    \/ RequestCreateWorkflow(c)
    \/ RequestAssignReviewer(c)
    \/ RequestSubmitReview(c)
    \/ RunCreateWorkflow(c)
    \/ RunAssignReviewer(c)
    \/ RunSubmitReview(c)

Next == Step("c1")

Spec == Init /\ [][Next]_vars

NextRace == \E c \in Clients : Step(c)

SpecRace == Init /\ [][NextRace]_vars

\* ------------------------------------------------- a panel of three ----
\* One workflow whose three reviewers are assigned, from there on reviews
\* arrive.  The start is what create_workflow and three assign_reviewer calls
\* leave in the store.
PanelSettings ==
    { [min_reviewers |-> 3, require_consensus |-> TRUE, consensus_threshold |-> 70,
       auto_assign |-> FALSE, expertise_required |-> {}],
      [min_reviewers |-> 2, require_consensus |-> TRUE, consensus_threshold |-> 40,
       auto_assign |-> FALSE, expertise_required |-> {}],
      [min_reviewers |-> 1, require_consensus |-> FALSE, consensus_threshold |-> 70,
       auto_assign |-> FALSE, expertise_required |-> {}] }

\* review_data dictionaries: the API takes any number as risk_assessment
PanelPayloads ==
    { [risk_assessment |-> Some(10), confidence_score |-> None, recommendation |-> None],
      [risk_assessment |-> Some(12), confidence_score |-> None, recommendation |-> None],
      [risk_assessment |-> Some(15), confidence_score |-> None, recommendation |-> None],
      [risk_assessment |-> Some(50), confidence_score |-> None, recommendation |-> None],
      [risk_assessment |-> Some(90), confidence_score |-> None, recommendation |-> None],
      [risk_assessment |-> Some(150), confidence_score |-> None, recommendation |-> None],
      [risk_assessment |-> None, confidence_score |-> None, recommendation |-> None],
      [risk_assessment |-> Some(40), confidence_score |-> None,
       recommendation |-> Some("approve")],
      [risk_assessment |-> Some(100), confidence_score |-> None,
       recommendation |-> Some("reject")] }

EmptyDB == [workflows |-> << >>, assignments |-> << >>, reviews |-> << >>,
            decisions |-> << >>, events |-> EmptyBag, votes |-> << >>, dirty |-> FALSE,
            early |-> {}]

PanelDB(settings) ==
    LET d0 == CreateWorkflow(EmptyDB, settings, << >>).db
        d1 == AssignReviewer(d0, 1, 1, REVIEWER).db
        d2 == AssignReviewer(d1, 1, 2, REVIEWER).db
    IN  AssignReviewer(d2, 1, 3, REVIEWER).db

InitPanel ==
    /\ \E settings \in PanelSettings :
          /\ workflows = PanelDB(settings).workflows
          /\ assignments = PanelDB(settings).assignments
          /\ events = PanelDB(settings).events
    /\ reviews = << >>
    /\ decisions = << >>
    /\ votes = << >>
    /\ dirty = FALSE
    /\ early = {}
    /\ calls = [c \in Clients |-> IdleCall]

PanelRequestSubmit(c) ==
    \E aid \in DOMAIN assignments : Accept(c, "submit_review", << aid >>)

PanelRunSubmit(c) ==
    /\ calls[c].state = "pending"
    /\ calls[c].op = "submit_review"
    /\ \E review_data \in PanelPayloads :
          LET r == SubmitReview(DB, calls[c].arg[1], review_data, TRUE)
          IN  /\ Store(r.db)
              /\ Return(c, r)

NextPanel == PanelRequestSubmit("c1") \/ PanelRunSubmit("c1")

SpecPanel == InitPanel /\ [][NextPanel]_vars

\* ------------------------------------------------ unvalidated settings ----
\* settings the endpoint accepts although they are out of range
InvalidSettings ==
    { [min_reviewers |-> 0, require_consensus |-> TRUE, consensus_threshold |-> 150,
       auto_assign |-> FALSE, expertise_required |-> {}] }

RunCreateWorkflowUnchecked(c) ==
    /\ calls[c].state = "pending"
    /\ calls[c].op = "create_workflow"
    /\ \E settings \in WorkflowSettings \cup InvalidSettings :
       \E order \in {s \in [1..Cardinality(Eligible(settings.expertise_required)) -> Users] :
                        Range(s) = Eligible(settings.expertise_required)} :
          LET r == CreateWorkflow(DB, settings, order)
          IN  /\ Len(r.db.assignments) + Cardinality(Pending("assign_reviewer"))
                    <= MaxAssignments
              /\ Store(r.db)
              /\ Return(c, r)

StepUnchecked(c) ==
    \/ RequestCreateWorkflow(c)
    \/ RequestAssignReviewer(c)
    \/ RequestSubmitReview(c)
    \/ RunCreateWorkflowUnchecked(c)
    \/ RunAssignReviewer(c)
    \/ RunSubmitReview(c)

NextUnchecked == StepUnchecked("c1")

SpecUnchecked == Init /\ [][NextUnchecked]_vars

\* ------------------------------------------------------ Redis outages ----
\* the Redis server of line 285 may be unreachable when line 495 runs
RunSubmitReviewRedis(c) ==
    /\ calls[c].state = "pending"
    /\ calls[c].op = "submit_review"
    /\ \E review_data \in ReviewPayloads, redisUp \in BOOLEAN :
          LET r == SubmitReview(DB, calls[c].arg[1], review_data, redisUp)
          IN  /\ Store(r.db)
              /\ Return(c, r)

StepFault(c) ==
    \/ RequestCreateWorkflow(c)
    \/ RequestAssignReviewer(c)
    \/ RequestSubmitReview(c)
    \/ RunCreateWorkflow(c)
    \/ RunAssignReviewer(c)
    \/ RunSubmitReviewRedis(c)

NextFault == StepFault("c1")

SpecFault == Init /\ [][NextFault]_vars

\* -------------------------------------------------------------- votes ----
\* ConsensusManager.vote_on_review is a plain method without an await and no
\* endpoint calls it; its callers are clients whose calls may be in flight
\* together and run one after the other.
VotePayloads ==
    { [vote |-> "agree", confidence |-> Some(80), comment |-> Some("sound")],
      [vote |-> "disagree", confidence |-> None, comment |-> None],
      [vote |-> "abstain", confidence |-> Some(0), comment |-> Some("")] }

Voters == {1, 2}

M_ExistingVote_Never(d, review_id, voter_id) == 0

\* query(ReviewVote).filter_by(review_id, voter_id).first(): the row's
\* position, 0 when there is none
ExistingVote(d, review_id, voter_id) ==
    LET found == {i \in DOMAIN d.votes : /\ d.votes[i].review_id = review_id
                                         /\ d.votes[i].voter_id = voter_id}
    IN  IF found = {} THEN 0 ELSE CHOOSE i \in found : \A j \in found : i <= j

\* result: the vote id returned
VoteOnReview(d, review_id, voter_id, payload) ==
    LET existing == ExistingVote(d, review_id, voter_id)
        new_vote == [id |-> Len(d.votes) + 1, review_id |-> review_id,
                     voter_id |-> voter_id, vote |-> payload.vote,
                     confidence |-> payload.confidence, comment |-> payload.comment]
    IN  IF existing # 0
        THEN [db |-> Commit([d EXCEPT !.votes[existing].vote = payload.vote,
                                      !.votes[existing].confidence = payload.confidence,
                                      !.votes[existing].comment = payload.comment]),
              result |-> d.votes[existing].id]
        ELSE [db |-> Commit([d EXCEPT !.votes = Append(@, new_vote)]),
              result |-> new_vote.id]

\* the store after a workflow was created, reviewer 3 assigned and their
\* review submitted: review 1 is the review voted on
VotesDB ==
    LET settings == CHOOSE x \in PanelSettings : x.min_reviewers = 3
        d0 == CreateWorkflow(EmptyDB, settings, << >>).db
        d1 == AssignReviewer(d0, 1, 3, REVIEWER).db
        review_data == CHOOSE x \in PanelPayloads : x.risk_assessment = Some(50)
    IN  SubmitReview(d1, 1, review_data, TRUE).db

InitVotes ==
    /\ workflows = VotesDB.workflows
    /\ assignments = VotesDB.assignments
    /\ reviews = VotesDB.reviews
    /\ decisions = VotesDB.decisions
    /\ events = VotesDB.events
    /\ votes = << >>
    /\ dirty = FALSE
    /\ early = {}
    /\ calls = [c \in Clients |-> IdleCall]

RequestVote(c) ==
    \E review_id \in DOMAIN reviews, voter_id \in Voters, payload \in VotePayloads :
        Accept(c, "vote_on_review", << review_id, voter_id, payload >>)

RunVote(c) ==
    /\ calls[c].state = "pending"
    /\ calls[c].op = "vote_on_review"
    /\ LET r == VoteOnReview(DB, calls[c].arg[1], calls[c].arg[2], calls[c].arg[3])
       IN  /\ Store(r.db)
           /\ Return(c, r)

NextVotes == \E c \in Clients : RequestVote(c) \/ RunVote(c)

SpecVotes == InitVotes /\ [][NextVotes]_vars

\* ------------------------------------------------- outlier detection ----
\* ConsensusManager.identify_outliers is a function of the list it is given;
\* no endpoint calls it.  The list is drawn at the start and the one step
\* applies the function to it.
MaxReviews == 6

OutlierRisks == {None, Some(10), Some(50), Some(90)}

M_IsOutlier_AnyDeviation(n, total, sq, x) == n * x # total

\* abs(z_score) > 2, z_score = (x - mean) / (std_dev or 1):
\* x - mean = (n * x - total) / (n * Scale), std_dev ** 2 = sq / (n ** 3 * Scale ** 2)
IsOutlier(n, total, sq, x) ==
    IF sq = 0
    THEN (n * x - total) * (n * x - total) > 4 * n * n * Scale * Scale
    ELSE (n * x - total) * (n * x - total) * n > 4 * sq

\* the z_score is exactly 2 or -2: whether the double that lines 1136-1142
\* compute exceeds 2 depends on the rounding of the mean, the square root and
\* the division (risks 0.5, 0.5, 0.5, 0.5, 0.9 give 2.0000000000000004)
AtThreshold(n, total, sq, x) ==
    sq # 0 /\ (n * x - total) * (n * x - total) * n = 4 * sq

\* the positions of the Reviews of a list whose z_score is exactly 2 or -2
ThresholdPositions(revs) ==
    LET scored == SelectSeq(revs, LAMBDA r : r.risk_assessment # None)
        risk_scores == [i \in DOMAIN scored |-> scored[i].risk_assessment[1]]
        n == Len(risk_scores)
        total == SumSeq(risk_scores)
        sq == SumSeq([i \in DOMAIN risk_scores |->
                        (n * risk_scores[i] - total) * (n * risk_scores[i] - total)])
    IN  IF Len(revs) < 3 THEN {}
        ELSE {i \in DOMAIN revs : /\ revs[i].risk_assessment # None
                                  /\ AtThreshold(n, total, sq, revs[i].risk_assessment[1])}

\* Lines 1135-1142 in doubles. Of the lists of scored risks 0.1, 0.4, 0.5,
\* 0.9 that the specifications below draw and that hold a risk exactly two
\* standard deviations from the mean, these yield a z_score of
\* 2.0000000000000004 or -2.0000000000000004 for it; the others yield 2 or
\* less in absolute value.
ZScoreRoundedUp ==
    { << 10, 40, 10, 10, 10 >>, << 10, 50, 50, 50, 50 >>, << 40, 10, 10, 10, 10 >>,
      << 50, 10, 50, 50, 50 >>, << 50, 50, 10, 50, 50 >>, << 50, 50, 50, 10, 50 >>,
      << 50, 50, 50, 50, 10 >>, << 50, 50, 50, 50, 90 >>, << 50, 50, 50, 90, 50 >>,
      << 50, 50, 90, 50, 50 >>, << 50, 90, 50, 50, 50 >>, << 90, 50, 50, 50, 50 >>,
      << 90, 90, 90, 50, 90 >>, << 10, 10, 10, 50, 50, 50, 50, 10, 90 >>,
      << 10, 10, 90, 50, 50, 50, 50, 50, 50, 10 >>,
      << 10, 50, 50, 50, 50, 50, 50, 90, 10, 10 >>,
      << 10, 50, 50, 50, 50, 50, 50, 90, 90, 90 >>,
      << 10, 90, 10, 50, 50, 50, 50, 50, 50, 10 >>,
      << 10, 90, 50, 50, 50, 50, 50, 50, 10, 10 >>,
      << 10, 90, 50, 50, 50, 50, 50, 50, 90, 90 >>,
      << 10, 90, 90, 50, 50, 50, 50, 50, 50, 90 >>,
      << 90, 10, 10, 50, 50, 50, 50, 50, 50, 10 >>,
      << 90, 10, 50, 50, 50, 50, 50, 50, 10, 10 >>,
      << 90, 10, 50, 50, 50, 50, 50, 50, 90, 90 >>,
      << 90, 10, 90, 50, 50, 50, 50, 50, 50, 90 >>,
      << 90, 50, 50, 50, 50, 50, 50, 10, 10, 10 >>,
      << 90, 50, 50, 50, 50, 50, 50, 10, 90, 90 >>,
      << 90, 90, 10, 50, 50, 50, 50, 50, 50, 90 >> }

\* the positions at the threshold whose computed z_score comes out beyond it
RoundedUpPositions(revs) ==
    LET scored == SelectSeq(revs, LAMBDA r : r.risk_assessment # None)
        risk_scores == [i \in DOMAIN scored |-> scored[i].risk_assessment[1]]
    IN  IF risk_scores \in ZScoreRoundedUp THEN ThresholdPositions(revs) ELSE {}

\* the positions, in the list given, of the reviews reported; rounded_up: the
\* positions at the threshold whose computed z_score came out beyond it
IdentifyOutliers(revs, rounded_up) ==
    IF Len(revs) < 3 THEN << >>
    ELSE
    LET scored == SelectSeq(revs, LAMBDA r : r.risk_assessment # None)
        risk_scores == [i \in DOMAIN scored |-> scored[i].risk_assessment[1]]
        n == Len(risk_scores)
        total == SumSeq(risk_scores)
        sq == SumSeq([i \in DOMAIN risk_scores |->
                        (n * risk_scores[i] - total) * (n * risk_scores[i] - total)])
    IN  IF risk_scores = << >> THEN << >>
        ELSE SelectSeq([i \in DOMAIN revs |-> i],
                       LAMBDA i : /\ revs[i].risk_assessment # None
                                  /\ \/ IsOutlier(n, total, sq, revs[i].risk_assessment[1])
                                     \/ i \in rounded_up)

ReviewLists ==
    UNION { { [i \in 1..n |-> [risk_assessment |-> f[i]]] : f \in [1..n -> OutlierRisks] } :
            n \in 0..MaxReviews }

InitOutliers ==
    /\ workflows = << >>
    /\ assignments = << >>
    /\ reviews = << >>
    /\ decisions = << >>
    /\ events = EmptyBag
    /\ votes = << >>
    /\ dirty = FALSE
    /\ early = {}
    /\ \E revs \in ReviewLists :
          calls = [c \in Clients |->
                     IF c = "c1"
                     THEN [IdleCall EXCEPT !.state = "pending", !.op = "identify_outliers",
                                           !.arg = revs]
                     ELSE IdleCall]

RunIdentifyOutliers(c) ==
    /\ calls[c].state = "pending"
    /\ calls[c].op = "identify_outliers"
    /\ calls' = [calls EXCEPT ![c].state = "done",
                              ![c].result = IdentifyOutliers(calls[c].arg,
                                                RoundedUpPositions(calls[c].arg))]
    /\ UNCHANGED << workflows, assignments, reviews, decisions, events, votes, dirty, early >>

NextOutliers == RunIdentifyOutliers("c1")

SpecOutliers == InitOutliers /\ [][NextOutliers]_vars

\* longer lists: up to MaxEdge reviews, then up to MaxPad reviews with risk
\* 0.5, then up to MaxEdge reviews
MaxEdge == 2
MaxPad == 6

EdgeRisks == {None, Some(10), Some(40), Some(90)}

EdgeLists ==
    UNION { { [i \in 1..n |-> [risk_assessment |-> f[i]]] : f \in [1..n -> EdgeRisks] } :
            n \in 0..MaxEdge }

PaddedLists ==
    { head \o [i \in 1..m |-> [risk_assessment |-> Some(50)]] \o tail :
        head \in EdgeLists, m \in 0..MaxPad, tail \in EdgeLists }

InitPaddedOutliers ==
    /\ workflows = << >>
    /\ assignments = << >>
    /\ reviews = << >>
    /\ decisions = << >>
    /\ events = EmptyBag
    /\ votes = << >>
    /\ dirty = FALSE
    /\ early = {}
    /\ \E revs \in PaddedLists :
          calls = [c \in Clients |->
                     IF c = "c1"
                     THEN [IdleCall EXCEPT !.state = "pending", !.op = "identify_outliers",
                                           !.arg = revs]
                     ELSE IdleCall]

SpecPaddedOutliers == InitPaddedOutliers /\ [][NextOutliers]_vars

\* ------------------------------------------- the consensus calculator ----
\* _calculate_consensus as a function of the list it is given: the list is
\* drawn at the start and the one step applies the function to it.
MaxScored == 3

ConsensusReviews ==
    [risk_assessment : {None, Some(10), Some(50), Some(90)},
     recommendation : {None, Some(""), Some("approve"), Some("reject")}]

ConsensusLists == UNION { [1..n -> ConsensusReviews] : n \in 0..MaxScored }

InitConsensus ==
    /\ workflows = << >>
    /\ assignments = << >>
    /\ reviews = << >>
    /\ decisions = << >>
    /\ events = EmptyBag
    /\ votes = << >>
    /\ dirty = FALSE
    /\ early = {}
    /\ \E revs \in ConsensusLists :
          calls = [c \in Clients |->
                     IF c = "c1"
                     THEN [IdleCall EXCEPT !.state = "pending", !.op = "calculate_consensus",
                                           !.arg = revs]
                     ELSE IdleCall]

RunCalculateConsensus(c) ==
    /\ calls[c].state = "pending"
    /\ calls[c].op = "calculate_consensus"
    /\ calls' = [calls EXCEPT ![c].state = "done",
                              ![c].result = CalculateConsensus(calls[c].arg)]
    /\ UNCHANGED << workflows, assignments, reviews, decisions, events, votes, dirty, early >>

NextConsensus == RunCalculateConsensus("c1")

SpecConsensus == InitConsensus /\ [][NextConsensus]_vars

\* ============================================================== claims ====
CompletedIn(asg, w) ==
    Cardinality({i \in DOMAIN asg : asg[i].workflow_id = w /\ asg[i].completed})
CompletedCount(w) == CompletedIn(assignments, w)
AssignmentCount(w) ==
    Cardinality({i \in DOMAIN assignments : assignments[i].workflow_id = w})
ReviewsOf(a) == {i \in DOMAIN reviews : reviews[i].assignment_id = a}
DecisionsOf(w) == {i \in DOMAIN decisions : decisions[i].workflow_id = w}
EventsIn(ev, type, id) == CopiesIn([type |-> type, id |-> id], ev)
EventCount(type, id) == EventsIn(events, type, id)
Terminal == {CONSENSUS_REACHED, COMPLETED}

\* this step is the run of client c's handler op
Ran(c, op) ==
    /\ calls[c].state = "pending"
    /\ calls[c].op = op
    /\ calls'[c].state = "done"

\* C1: once a workflow's status is CONSENSUS_REACHED or COMPLETED, no step
\* changes it.
C1_TerminalStatusIsFinal ==
    [][\A w \in DOMAIN workflows :
          workflows[w].status \in Terminal
              => workflows'[w].status = workflows[w].status]_vars

\* C2: a workflow that never entered DISPUTED (no DiscussionStarted event of
\* it, status not DISPUTED) has at most one Decision record.
C2_OneDecisionWithoutDispute ==
    \A w \in DOMAIN workflows :
        (EventCount("DiscussionStarted", w) = 0 /\ workflows[w].status # DISPUTED)
            => Cardinality(DecisionsOf(w)) <= 1

\* C3: of two submit_review calls on different assignments of one workflow
\* that were in flight together and succeeded, at most one invoked the
\* Decision Finalizer, and the workflow has at most one Decision.
RacedSubmits(c1, c2) ==
    /\ c1 # c2
    /\ calls[c1].state = "done" /\ calls[c1].op = "submit_review"
    /\ calls[c2].state = "done" /\ calls[c2].op = "submit_review"
    /\ calls[c1].overlapped
C3_OneFinalizerPerRace ==
    \A c1, c2 \in Clients :
        ( /\ RacedSubmits(c1, c2)
          /\ calls[c1].result = "ok" /\ calls[c2].result = "ok"
          /\ calls[c1].arg # calls[c2].arg
          /\ assignments[calls[c1].arg[1]].workflow_id
                = assignments[calls[c2].arg[1]].workflow_id )
        => /\ ~(calls[c1].finalized /\ calls[c2].finalized)
           /\ Cardinality(DecisionsOf(assignments[calls[c1].arg[1]].workflow_id)) <= 1

\* C4: two submit_review calls on the same assignment that were in flight
\* together never both succeed: once the first has succeeded the other
\* returns AlreadySubmitted, and no assignment ever has two Reviews.
C4_OneReviewPerAssignmentRace ==
    /\ \A a \in DOMAIN assignments : Cardinality(ReviewsOf(a)) <= 1
    /\ \A c1, c2 \in Clients :
          (RacedSubmits(c1, c2) /\ calls[c1].arg = calls[c2].arg)
          => /\ ~(calls[c1].result = "ok" /\ calls[c2].result = "ok")
             /\ calls[c1].result = "ok" => calls[c2].result = "AlreadySubmitted"
C4_Witness ==
    \E c1, c2 \in Clients :
        /\ RacedSubmits(c1, c2) /\ calls[c1].arg = calls[c2].arg
        /\ calls[c1].result = "ok"
        /\ calls[c2].result = "AlreadySubmitted"

\* C5: in every state a workflow has no more completed assignments than
\* assignments, every Review references an assignment, and an assignment is
\* completed exactly when one Review references it (never two).
C5_CompletedReviewBijection ==
    /\ \A w \in DOMAIN workflows : CompletedCount(w) <= AssignmentCount(w)
    /\ \A r \in DOMAIN reviews : reviews[r].assignment_id \in DOMAIN assignments
    /\ \A a \in DOMAIN assignments :
          /\ Cardinality(ReviewsOf(a)) <= 1
          /\ assignments[a].completed <=> Cardinality(ReviewsOf(a)) = 1
C5_Witness ==
    \E a, b \in DOMAIN assignments :
        /\ assignments[a].completed /\ Cardinality(ReviewsOf(a)) = 1
        /\ ~assignments[b].completed /\ ReviewsOf(b) = {}

\* C6: a submit_review on an assignment that is already completed returns
\* AlreadySubmitted and changes no table and emits no event: the first
\* Review, the assignment, the workflow status and the Decisions stay.
C6_ResubmitChangesNothing ==
    [][\A c \in Clients :
          ( /\ Ran(c, "submit_review")
            /\ calls[c].arg[1] \in DOMAIN assignments
            /\ assignments[calls[c].arg[1]].completed )
          => /\ calls'[c].result = "AlreadySubmitted"
             /\ UNCHANGED << workflows, assignments, reviews, decisions, events >>]_vars
C6_Witness ==
    \E c \in Clients :
        /\ calls[c].state = "done" /\ calls[c].op = "submit_review"
        /\ calls[c].result = "AlreadySubmitted"
        /\ Cardinality(ReviewsOf(calls[c].arg[1])) = 1
        /\ decisions # << >>

\* C7: assign_reviewer on a pair that is already assigned returns
\* DuplicateAssignment and changes no table and emits no event; in every
\* state each (workflow, reviewer) pair has at most one assignment, and each
\* assignment, manual or auto-assigned, has exactly one invitation event.
NoDuplicateAssignment ==
    \A i, j \in DOMAIN assignments :
        ( /\ assignments[i].workflow_id = assignments[j].workflow_id
          /\ assignments[i].reviewer_id = assignments[j].reviewer_id ) => i = j
OneInvitationEach ==
    /\ \A a \in DOMAIN assignments : EventCount("ReviewInvitationSent", a) = 1
    /\ \A e \in BagToSet(events) :
          e.type = "ReviewInvitationSent" => e.id \in DOMAIN assignments
C7_NoDuplicateAssignment ==
    [][ /\ NoDuplicateAssignment'
        /\ OneInvitationEach'
        /\ \A c \in Clients :
              ( /\ Ran(c, "assign_reviewer")
                /\ \E i \in DOMAIN assignments :
                      /\ assignments[i].workflow_id = calls[c].arg[1]
                      /\ assignments[i].reviewer_id = calls[c].arg[2] )
              => /\ calls'[c].result = "DuplicateAssignment"
                 /\ UNCHANGED << workflows, assignments, reviews, decisions, events >>
      ]_vars
C7_Witness ==
    \E c \in Clients, a \in DOMAIN assignments :
        /\ calls[c].state = "done" /\ calls[c].op = "assign_reviewer"
        /\ calls[c].result = "DuplicateAssignment"
        /\ calls[c].arg = << assignments[a].workflow_id, assignments[a].reviewer_id >>
        /\ assignments[a].role = LEAD_REVIEWER
        /\ Len(assignments) > 1

\* C8: after a successful submit_review, if the workflow's completed count
\* is below min_reviewers the status and the Decisions are unchanged and the
\* only event emitted is ReviewSubmitted; otherwise the check has evaluated
\* the workflow (its status is COMPLETED, CONSENSUS_REACHED or DISPUTED).
C8_CheckOnlyAtQuorum ==
    [][\A c \in Clients :
          (Ran(c, "submit_review") /\ calls'[c].result = "ok")
          => LET w == assignments[calls[c].arg[1]].workflow_id
             IN  IF CompletedIn(assignments', w) < workflows[w].min_reviewers
                 THEN /\ workflows' = workflows
                      /\ decisions' = decisions
                      /\ events' = events (+) SetToBag({[type |-> "ReviewSubmitted",
                                                        id |-> Len(reviews')]})
                 ELSE workflows'[w].status \in {COMPLETED, CONSENSUS_REACHED, DISPUTED}
      ]_vars
C8_Witness ==
    \E c \in Clients :
        /\ calls[c].state = "done" /\ calls[c].op = "submit_review"
        /\ calls[c].result = "ok"
        /\ LET w == assignments[calls[c].arg[1]].workflow_id
           IN  /\ CompletedCount(w) = 1
               /\ workflows[w].min_reviewers = 2
               /\ workflows[w].status = PENDING
               /\ decisions = << >>

\* C9: when a successful submit_review leaves a require_consensus workflow
\* at quorum, then if the consensus score of its Reviews is >= the threshold
\* (equality included) the status becomes CONSENSUS_REACHED and one Decision
\* of that workflow, carrying the score, is added with its DecisionMade
\* event; otherwise the status becomes DISPUTED, one DiscussionStarted event
\* is emitted and no Decision is added.
C9_ConsensusGate ==
    [][\A c \in Clients :
          (Ran(c, "submit_review") /\ calls'[c].result = "ok")
          => LET w == assignments[calls[c].arg[1]].workflow_id
                 score == CalculateConsensus(WorkflowReviews(DB', w))
             IN  ( /\ workflows[w].require_consensus
                   /\ CompletedIn(assignments', w) >= workflows[w].min_reviewers )
                 => IF score.num * Scale >= workflows[w].consensus_threshold * score.den
                    THEN /\ workflows'[w].status = CONSENSUS_REACHED
                         /\ decisions' = Append(decisions,
                               [decisions'[Len(decisions')] EXCEPT
                                   !.workflow_id = w,
                                   !.consensus_score = Some(score)])
                         /\ EventsIn(events', "DecisionMade", Len(decisions')) = 1
                         /\ EventsIn(events', "DiscussionStarted", w)
                               = EventCount("DiscussionStarted", w)
                    ELSE /\ workflows'[w].status = DISPUTED
                         /\ EventsIn(events', "DiscussionStarted", w)
                               = EventCount("DiscussionStarted", w) + 1
                         /\ decisions' = decisions
      ]_vars
C9_Witness ==
    \E w \in DOMAIN workflows, i \in DOMAIN decisions :
        /\ workflows[w].require_consensus
        /\ workflows[w].status = CONSENSUS_REACHED
        /\ decisions[i].workflow_id = w
        /\ decisions[i].consensus_score # None
        /\ decisions[i].consensus_score[1].num * Scale
              = workflows[w].consensus_threshold * decisions[i].consensus_score[1].den

\* C10: a workflow with require_consensus false is never CONSENSUS_REACHED
\* or DISPUTED, has no DiscussionStarted event, and all its Decisions have a
\* null consensus score; the successful submit_review that leaves it at
\* quorum sets it COMPLETED and adds one such Decision.
NoConsensusWorkflows ==
    \A w \in DOMAIN workflows :
        ~workflows[w].require_consensus
        => /\ workflows[w].status \notin {CONSENSUS_REACHED, DISPUTED}
           /\ EventCount("DiscussionStarted", w) = 0
           /\ \A i \in DecisionsOf(w) : decisions[i].consensus_score = None
C10_NoConsensusCompletes ==
    [][ /\ NoConsensusWorkflows'
        /\ \A c \in Clients :
              (Ran(c, "submit_review") /\ calls'[c].result = "ok")
              => LET w == assignments[calls[c].arg[1]].workflow_id
                 IN  ( /\ ~workflows[w].require_consensus
                       /\ CompletedIn(assignments', w) >= workflows[w].min_reviewers )
                     => /\ workflows'[w].status = COMPLETED
                        /\ Len(decisions') = Len(decisions) + 1
                        /\ decisions'[Len(decisions')].workflow_id = w
                        /\ decisions'[Len(decisions')].consensus_score = None
      ]_vars
C10_Witness ==
    \E w \in DOMAIN workflows, i \in DOMAIN decisions :
        /\ ~workflows[w].require_consensus
        /\ workflows[w].status = COMPLETED
        /\ decisions[i].workflow_id = w
        /\ decisions[i].consensus_score = None

\* C11: a workflow with at least one completed assignment and fewer than
\* min_reviewers of them has status IN_PROGRESS.
C11_InProgressBelowQuorum ==
    \A w \in DOMAIN workflows :
        (CompletedCount(w) >= 1 /\ CompletedCount(w) < workflows[w].min_reviewers)
            => workflows[w].status = IN_PROGRESS

\* C12: the statuses a workflow can have after up to n further successful
\* submit_review calls on its open assignments
RECURSIVE StatusesAfter(_, _, _)
StatusesAfter(d, w, n) ==
    {d.workflows[w].status} \cup
    ( IF n = 0 THEN {}
      ELSE UNION { StatusesAfter(SubmitReview(d, a, p, TRUE).db, w, n - 1) :
                     a \in {i \in DOMAIN d.assignments :
                              /\ d.assignments[i].workflow_id = w
                              /\ ~d.assignments[i].completed},
                     p \in PanelPayloads } )
OpenCount(w) == AssignmentCount(w) - CompletedCount(w)

\* C12: from a DISPUTED workflow that still has an open assignment, further
\* reviews can lead to COMPLETED, and they lead neither to PENDING nor to
\* IN_PROGRESS.  (That they can lead to CONSENSUS_REACHED is C12_Witness.)
C12_DisputedResolves ==
    \A w \in DOMAIN workflows :
        (workflows[w].status = DISPUTED /\ OpenCount(w) > 0)
            => /\ COMPLETED \in StatusesAfter(DB, w, OpenCount(w))
               /\ PENDING \notin StatusesAfter(DB, w, OpenCount(w))
               /\ IN_PROGRESS \notin StatusesAfter(DB, w, OpenCount(w))
\* a workflow that was DISPUTED and that a further review has moved to
\* CONSENSUS_REACHED
C12_Witness ==
    \E w \in DOMAIN workflows :
        /\ workflows[w].status = CONSENSUS_REACHED
        /\ EventCount("DiscussionStarted", w) > 0
\* what holds instead of C12's COMPLETED: a workflow that was DISPUTED is
\* DISPUTED or CONSENSUS_REACHED ever after
C12_DisputedNeverCompletes ==
    \A w \in DOMAIN workflows :
        EventCount("DiscussionStarted", w) > 0
            => workflows[w].status \in {DISPUTED, CONSENSUS_REACHED}

\* C13: every Decision a step adds carries the label that the inclusive
\* thresholds give for the avg_risk the finalizer computed: reject from 0.7
\* on, request_revision from 0.4 up to but not including 0.7, approve below
\* 0.4; no other label is written.
C13_LabelByThresholds ==
    [][\A i \in DOMAIN decisions' :
          i > Len(decisions)
          => LET w == decisions'[i].workflow_id
                 a == AvgRisk(WorkflowReviews(DB', w))
                 label == decisions'[i].decision
             IN  /\ label \in {"reject", "request_revision", "approve"}
                 /\ label = "reject" <=> 10 * a.num >= 7 * a.den
                 /\ label = "request_revision"
                       <=> (10 * a.num >= 4 * a.den /\ 10 * a.num < 7 * a.den)
                 /\ label = "approve" <=> 10 * a.num < 4 * a.den
      ]_vars
\* both boundaries: a first review with risk 0.4 gave request_revision, a
\* second with risk 1.0 made the average exactly 0.7 and gave reject
C13_Witness ==
    /\ Len(decisions) = 2
    /\ decisions[1].decision = "request_revision"
    /\ decisions[2].decision = "reject"
    /\ Len(reviews) = 2
    /\ reviews[1].risk_assessment = Some(40)
    /\ 10 * AvgRisk(WorkflowReviews(DB, 1)).num = 7 * AvgRisk(WorkflowReviews(DB, 1)).den

\* C14: the arithmetic mean of the non-null risk assessments of a list of
\* Reviews that has at least one
MeanOfScored(revs) ==
    LET scored == SelectSeq(revs, LAMBDA r : r.risk_assessment # None)
    IN  Frac(SumSeq([i \in DOMAIN scored |-> scored[i].risk_assessment[1]]),
             Len(scored) * Scale)
HasScored(revs) == \E i \in DOMAIN revs : revs[i].risk_assessment # None

\* C14: every Decision a step adds for a workflow with a scored Review
\* carries the label of the mean over the scored Reviews only.
C14_AverageOverScoredReviews ==
    [][\A i \in DOMAIN decisions' :
          (i > Len(decisions) /\ HasScored(WorkflowReviews(DB', decisions'[i].workflow_id)))
          => decisions'[i].decision
                = DecisionLabel(MeanOfScored(WorkflowReviews(DB', decisions'[i].workflow_id)))
      ]_vars

\* C15: a submit_review that brings the finalizer to run on a
\* workflow none of whose Reviews has a risk assessment returns
\* InsufficientData, adds no Decision, emits no DecisionMade event and leaves
\* the status non-terminal.
C15_NoRiskIsInsufficientData ==
    [][\A c \in Clients :
          ( /\ Ran(c, "submit_review")
            /\ calls[c].arg[1] \in DOMAIN assignments
            /\ ~assignments[calls[c].arg[1]].completed
            /\ LET w == assignments[calls[c].arg[1]].workflow_id
                   revs == WorkflowReviews(DB', w)
               IN  /\ ~HasScored(revs)
                   /\ QuorumReached(CompletedIn(assignments', w), workflows[w].min_reviewers)
                   /\ \/ ~workflows[w].require_consensus
                      \/ ConsensusMet(CalculateConsensus(revs),
                                      Frac(workflows[w].consensus_threshold, Scale)) )
          => /\ calls'[c].result = "InsufficientData"
             /\ decisions' = decisions
             /\ \A e \in BagToSet(events') :
                   e.type = "DecisionMade" => e \in BagToSet(events)
             /\ workflows'[assignments[calls[c].arg[1]].workflow_id].status \notin Terminal
      ]_vars

\* C16: a submit_review that returns an error leaves the assignments (their
\* completed flags) and the persisted Reviews exactly as they were.
C16_FailedSubmitChangesNothing ==
    [][\A c \in Clients :
          (Ran(c, "submit_review") /\ calls'[c].result # "ok")
          => /\ assignments' = assignments
             /\ reviews' = reviews
      ]_vars

\* C17: every stored workflow has min_reviewers >= 1 and a
\* consensus_threshold in [0, 1].
C17_StoredSettingsInRange ==
    \A w \in DOMAIN workflows :
        /\ workflows[w].min_reviewers >= 1
        /\ workflows[w].consensus_threshold >= 0
        /\ workflows[w].consensus_threshold <= Scale

\* C18: the risks of the scored Reviews of a list, in hundredths
RisksOf(revs) ==
    LET scored == SelectSeq(revs, LAMBDA r : r.risk_assessment # None)
    IN  [i \in DOMAIN scored |-> scored[i].risk_assessment[1]]

\* C18: in every state the consensus score of a workflow's Reviews, as the
\* gate would compute it, is at least 0 and at most 1; and when all the
\* Reviews carry the same risk assessment the variance consensus is
\* exactly 1.
C18_ConsensusInUnitInterval ==
    \A w \in DOMAIN workflows :
        LET revs == WorkflowReviews(DB, w)
            score == CalculateConsensus(revs)
        IN  /\ score.den > 0
            /\ score.num >= 0
            /\ score.num <= score.den
            /\ ( /\ revs # << >>
                 /\ \A i \in DOMAIN revs : revs[i].risk_assessment = revs[1].risk_assessment
                 /\ revs[1].risk_assessment # None )
               => VarianceConsensus(RisksOf(revs)).num = VarianceConsensus(RisksOf(revs)).den
\* three Reviews with one and the same risk; the gate's score is 1
C18_Witness ==
    /\ Len(reviews) = 3
    /\ reviews[1].risk_assessment = Some(15)
    /\ \A i \in DOMAIN reviews : reviews[i].risk_assessment = reviews[1].risk_assessment
    /\ CalculateConsensus(WorkflowReviews(DB, 1)).num
          = CalculateConsensus(WorkflowReviews(DB, 1)).den

\* C19: the three-reviewer scenario
ScenarioPanel(risks) ==
    /\ workflows[1].min_reviewers = 3
    /\ workflows[1].consensus_threshold = 70
    /\ workflows[1].require_consensus
    /\ Len(reviews) = 3
    /\ \A i \in DOMAIN reviews : reviews[i].recommendation = None
    /\ {reviews[i].risk_assessment : i \in DOMAIN reviews} = {Some(x) : x \in risks}

\* C19: in a require_consensus workflow with min_reviewers 3 and threshold
\* 0.7 whose three Reviews carry no recommendation, after the third
\* submission risks 0.1, 0.15, 0.12 leave the status CONSENSUS_REACHED and one
\* Decision, labelled approve, and risks 0.1, 0.9, 0.5 leave the status
\* DISPUTED and no Decision.
C19_ThreeReviewerScenarios ==
    /\ ScenarioPanel({10, 15, 12})
          => /\ workflows[1].status = CONSENSUS_REACHED
             /\ Len(decisions) = 1
             /\ decisions[1].decision = "approve"
    /\ ScenarioPanel({10, 90, 50})
          => /\ workflows[1].status = DISPUTED
             /\ decisions = << >>
\* the first scenario, submitted in the order 0.1, 0.15, 0.12
C19_Witness ==
    /\ ScenarioPanel({10, 15, 12})
    /\ reviews[1].risk_assessment = Some(10)
    /\ reviews[2].risk_assessment = Some(15)
    /\ workflows[1].status = CONSENSUS_REACHED
    /\ calls["c1"].state = "done"
    /\ calls["c1"].result = "ok"
\* the second scenario, submitted in the order 0.1, 0.9, 0.5
C19_DisputedScenario ==
    /\ ScenarioPanel({10, 90, 50})
    /\ reviews[1].risk_assessment = Some(10)
    /\ reviews[2].risk_assessment = Some(90)
    /\ workflows[1].status = DISPUTED
    /\ EventCount("DiscussionStarted", 1) = 1

\* C20: the number of Reviews of a list that have a risk assessment
ScoredCount(revs) ==
    Cardinality({i \in DOMAIN revs : revs[i].risk_assessment # None})

\* C20: identify_outliers returns the empty list for every list in which
\* fewer than 3 Reviews have a risk assessment, however many Reviews without
\* one the list holds.
C20_NoOutliersBelowThreeScored ==
    \A c \in Clients :
        ( /\ calls[c].op = "identify_outliers"
          /\ calls[c].state = "done"
          /\ ScoredCount(calls[c].arg) < 3 )
        => calls[c].result = << >>
\* a list of at least three Reviews, exactly two of them scored and with
\* different risks, for which the function has returned the empty list
C20_Witness ==
    \E c \in Clients :
        /\ calls[c].op = "identify_outliers"
        /\ calls[c].state = "done"
        /\ Len(calls[c].arg) >= 3
        /\ ScoredCount(calls[c].arg) = 2
        /\ \E i, j \in DOMAIN calls[c].arg :
              /\ calls[c].arg[i].risk_assessment = Some(10)
              /\ calls[c].arg[j].risk_assessment = Some(90)
        /\ calls[c].result = << >>
\* the function does report outliers for longer scored lists
C20_SomeOutlier ==
    \E c \in Clients :
        /\ calls[c].op = "identify_outliers"
        /\ calls[c].state = "done"
        /\ calls[c].result # << >>

\* C21: in every state each (review, voter) pair has at most one Vote; a
\* vote_on_review for a pair that has a Vote writes the call's vote,
\* confidence and comment into that row, adds no row and returns the row's
\* id, the id the first call returned; a call for a new pair adds one row.
OneVotePerPair ==
    \A i, j \in DOMAIN votes :
        (votes[i].review_id = votes[j].review_id /\ votes[i].voter_id = votes[j].voter_id)
            => i = j
C21_OneVotePerPair ==
    [][ /\ OneVotePerPair'
        /\ \A i \in DOMAIN votes : /\ i \in DOMAIN votes'
                                   /\ votes'[i].id = votes[i].id
                                   /\ votes'[i].review_id = votes[i].review_id
                                   /\ votes'[i].voter_id = votes[i].voter_id
        /\ \A c \in Clients :
              Ran(c, "vote_on_review")
              => LET review_id == calls[c].arg[1]
                     voter_id == calls[c].arg[2]
                     payload == calls[c].arg[3]
                     old == {i \in DOMAIN votes : /\ votes[i].review_id = review_id
                                                  /\ votes[i].voter_id = voter_id}
                     row == CHOOSE i \in DOMAIN votes' : /\ votes'[i].review_id = review_id
                                                         /\ votes'[i].voter_id = voter_id
                 IN  /\ votes'[row].vote = payload.vote
                     /\ votes'[row].confidence = payload.confidence
                     /\ votes'[row].comment = payload.comment
                     /\ calls'[c].result = votes'[row].id
                     /\ \A i \in DOMAIN votes : i # row => votes'[i] = votes[i]
                     /\ IF old = {} THEN Len(votes') = Len(votes) + 1
                        ELSE row \in old /\ Len(votes') = Len(votes)
      ]_vars
\* two calls for one pair, in flight together, with different values: one
\* row for the pair, both calls returned its id, and it holds the values of
\* the call that ran second
C21_Witness ==
    \E c1, c2 \in Clients :
        /\ c1 # c2
        /\ calls[c1].state = "done" /\ calls[c1].op = "vote_on_review"
        /\ calls[c2].state = "done" /\ calls[c2].op = "vote_on_review"
        /\ calls[c1].overlapped
        /\ calls[c1].arg[1] = calls[c2].arg[1]
        /\ calls[c1].arg[2] = calls[c2].arg[2]
        /\ calls[c1].arg[3] # calls[c2].arg[3]
        /\ calls[c1].result = calls[c2].result
        /\ Len(votes) = 2
        /\ votes[calls[c1].result].vote = calls[c2].arg[3].vote
        /\ votes[calls[c1].result].id = 2

\* C22: no ReviewSubmitted, DiscussionStarted or DecisionMade event is
\* emitted while the session holds a workflow status or a Decision that it
\* has not committed.
C22_EventsAfterCommit ==
    \A e \in early : e.type \notin {"ReviewSubmitted", "DiscussionStarted", "DecisionMade"}

\* C23: for every list in which fewer than 2 Reviews have a risk assessment,
\* the empty list included, the consensus score is 1.
C23_FewScoredIsFullConsensus ==
    \A c \in Clients :
        ( /\ calls[c].op = "calculate_consensus"
          /\ calls[c].state = "done"
          /\ ScoredCount(calls[c].arg) < 2 )
        => calls[c].result.num = calls[c].result.den
\* what holds instead: the score is 1 for such a list unless it is empty
C23_FewScoredNonEmpty ==
    \A c \in Clients :
        ( /\ calls[c].op = "calculate_consensus"
          /\ calls[c].state = "done"
          /\ ScoredCount(calls[c].arg) < 2
          /\ calls[c].arg # << >> )
        => calls[c].result.num = calls[c].result.den

\* C24: fractions in lowest terms
RECURSIVE GCD(_, _)
GCD(a, b) == IF b = 0 THEN a ELSE GCD(b, a % b)
Lowest(f) == Frac(f.num \div GCD(f.num, f.den), f.den \div GCD(f.num, f.den))
\* max(0, 1 - populationVariance / 0.25) of risks xs (hundredths), the variance
\* taken as the mean of the squares minus the square of the mean
ExpectedVarianceConsensus(xs) ==
    LET n == Len(xs)
        s1 == SumSeq(xs)
        s2 == SumSeq([i \in DOMAIN xs |-> xs[i] * xs[i]])
        den == n * n * Scale * Scale
        num == den - 4 * (n * s2 - s1 * s1)
    IN  IF num > 0 THEN Frac(num, den) ELSE Frac(0, den)
Labels(revs) ==
    {revs[i].recommendation[1] :
        i \in {j \in DOMAIN revs : revs[j].recommendation \notin {None, Some("")}}}

\* C24: for a list with at least 2 scored Reviews the consensus score is the
\* variance consensus when no Review has a non-empty recommendation, and
\* the mean of the variance consensus and 1 / k when k > 0 distinct
\* non-empty recommendations are present.
C24_ConsensusFormula ==
    \A c \in Clients :
        ( /\ calls[c].op = "calculate_consensus"
          /\ calls[c].state = "done"
          /\ ScoredCount(calls[c].arg) >= 2 )
        => LET vc == ExpectedVarianceConsensus(RisksOf(calls[c].arg))
               k == Cardinality(Labels(calls[c].arg))
           IN  Lowest(calls[c].result)
                  = IF k = 0 THEN Lowest(vc)
                    ELSE Lowest(Frac(vc.num * k + vc.den, 2 * k * vc.den))
\* risks 0.1 and 0.9 with two different labels and one empty one: 0.43
C24_Witness ==
    \E c \in Clients :
        /\ calls[c].op = "calculate_consensus"
        /\ calls[c].state = "done"
        /\ Len(calls[c].arg) = 3
        /\ ScoredCount(calls[c].arg) = 2
        /\ Labels(calls[c].arg) = {"approve", "reject"}
        /\ \E i \in DOMAIN calls[c].arg : calls[c].arg[i].recommendation = Some("")
        /\ Lowest(calls[c].result) = Frac(43, 100)

\* C25: the number of DecisionMade events in a bag
DecisionMadeCount(ev) ==
    LET made == {e \in BagToSet(ev) : e.type = "DecisionMade"}
    IN  BagCardinality([e \in made |-> CopiesIn(e, ev)])

\* C25: a step that finalizes adds exactly one Decision and one DecisionMade
\* event, which names the new Decision; no step removes or changes a stored
\* Decision; and in every state there are as many DecisionMade events as
\* Decisions.
C25_OneDecisionOneEvent ==
    [][ /\ DecisionMadeCount(events') = Len(decisions')
        /\ Len(decisions') \in {Len(decisions), Len(decisions) + 1}
        /\ \A i \in DOMAIN decisions : decisions'[i] = decisions[i]
        /\ Len(decisions') = Len(decisions) + 1
              => /\ EventsIn(events', "DecisionMade", Len(decisions')) = 1
                 /\ DecisionMadeCount(events') = DecisionMadeCount(events) + 1
      ]_vars
\* a workflow finalized twice: the first Decision is still there, and two
\* events
C25_Witness ==
    /\ Len(decisions) = 2
    /\ decisions[1].workflow_id = decisions[2].workflow_id
    /\ decisions[1].decision # decisions[2].decision
    /\ DecisionMadeCount(events) = 2

\* C26/C27: n * (risk - mean) * Scale of the Review at position p of a list,
\* n the number of scored Reviews; p's |z_score| grows with its square
Deviation(revs, p) ==
    Len(RisksOf(revs)) * revs[p].risk_assessment[1] - SumSeq(RisksOf(revs))

\* C26: in the list identify_outliers returns, each entry's |z_score| is at
\* least that of the entry after it.
C26_OutliersSortedByZ ==
    \A c \in Clients :
        (calls[c].op = "identify_outliers" /\ calls[c].state = "done")
        => \A k \in 1..(Len(calls[c].result) - 1) :
              Deviation(calls[c].arg, calls[c].result[k])
                    * Deviation(calls[c].arg, calls[c].result[k])
                 >= Deviation(calls[c].arg, calls[c].result[k + 1])
                    * Deviation(calls[c].arg, calls[c].result[k + 1])
\* risks 0.1, 0.4, six times 0.5, 0.9: the first and the last Review are
\* reported, in that order, with z_scores -2.03 and 2.15
C26_UnsortedResult ==
    \E c \in Clients :
        /\ calls[c].op = "identify_outliers"
        /\ calls[c].state = "done"
        /\ Len(calls[c].arg) = 9
        /\ calls[c].arg[1].risk_assessment = Some(10)
        /\ calls[c].arg[2].risk_assessment = Some(40)
        /\ calls[c].arg[9].risk_assessment = Some(90)
        /\ ThresholdPositions(calls[c].arg) = {}
        /\ calls[c].result = << 1, 9 >>

\* C27: with at least 3 scored Reviews, the Reviews reported are exactly the
\* scored ones with |risk - mean| / s > 2, s the population standard
\* deviation of the scored risks or 1 when that is 0, in the order of the
\* list; with all risks equal none is reported.
ExceedsTwoSigma(revs, p) ==
    LET n == Len(RisksOf(revs))
        s1 == SumSeq(RisksOf(revs))
        s2 == SumSeq([i \in DOMAIN RisksOf(revs) |-> RisksOf(revs)[i] * RisksOf(revs)[i]])
    IN  IF n * s2 = s1 * s1
        THEN Deviation(revs, p) * Deviation(revs, p) > 4 * n * n * Scale * Scale
        ELSE Deviation(revs, p) * Deviation(revs, p) > 4 * (n * s2 - s1 * s1)
C27_OutlierIffBeyondTwoSigma ==
    \A c \in Clients :
        ( /\ calls[c].op = "identify_outliers"
          /\ calls[c].state = "done"
          /\ ScoredCount(calls[c].arg) >= 3 )
        => /\ Range(calls[c].result)
                = {p \in DOMAIN calls[c].arg : /\ calls[c].arg[p].risk_assessment # None
                                               /\ ExceedsTwoSigma(calls[c].arg, p)}
           /\ \A k \in 1..(Len(calls[c].result) - 1) :
                 calls[c].result[k] < calls[c].result[k + 1]
\* what holds instead: the Reviews beyond two standard deviations are
\* reported, and every Review reported is beyond or exactly at two
C27_OutlierUpToRounding ==
    \A c \in Clients :
        ( /\ calls[c].op = "identify_outliers"
          /\ calls[c].state = "done"
          /\ ScoredCount(calls[c].arg) >= 3 )
        => LET beyond == {p \in DOMAIN calls[c].arg :
                            /\ calls[c].arg[p].risk_assessment # None
                            /\ ExceedsTwoSigma(calls[c].arg, p)}
           IN  /\ beyond \subseteq Range(calls[c].result)
               /\ Range(calls[c].result) \ beyond \subseteq ThresholdPositions(calls[c].arg)

\* risks 0.5, 0.5, 0.5, 0.5, 0.9: the fifth Review lies exactly two standard
\* deviations from the mean and is reported, with z_score 2.0000000000000004
C27_ReportedAtTwoSigma ==
    \E c \in Clients :
        /\ calls[c].op = "identify_outliers"
        /\ calls[c].state = "done"
        /\ RisksOf(calls[c].arg) = << 50, 50, 50, 50, 90 >>
        /\ Len(calls[c].arg) = 5
        /\ ~ExceedsTwoSigma(calls[c].arg, 5)
        /\ calls[c].result = << 5 >>

\* ==================================================== weighted consensus ====
\* ConsensusManager.calculate_weighted_consensus as a function of the list it
\* is given. Risks and confidences are in hundredths; the floats it returns
\* are exact fractions.
MaxWeighted == 3

WeightedReviews ==
    [risk_assessment : {None, Some(10), Some(90)},
     confidence_score : {None, Some(0), Some(50), Some(100), Some(0 - 50)}]

WeightedLists == UNION { [1..n -> WeightedReviews] : n \in 0..MaxWeighted }

Abs(x) == IF x < 0 THEN 0 - x ELSE x

\* review.confidence_score or 0.5: None and 0 are both falsy
Weight(review) ==
    IF review.confidence_score = None \/ review.confidence_score[1] = 0
    THEN 50
    ELSE review.confidence_score[1]

CalculateWeightedConsensus(revs) ==
    LET n == Len(revs)
        \* sum(weighted_risks), in 1/10000
        weighted_sum == SumSeq([i \in DOMAIN revs |->
                                  revs[i].risk_assessment[1] * Weight(revs[i])])
        total_weight == SumSeq([i \in DOMAIN revs |-> Weight(revs[i])])
        \* sum(deviations) * |total_weight|, in 1/10000
        deviation_sum == SumSeq([i \in DOMAIN revs |->
                                   Abs(revs[i].risk_assessment[1] * total_weight
                                       - weighted_sum) * Weight(revs[i])])
    IN  IF n = 0 THEN [consensus |-> 0, confidence |-> 0]
        ELSE IF \E i \in DOMAIN revs : revs[i].risk_assessment = None
        THEN [error |-> "TypeError"]     \* None * weight
        ELSE IF total_weight = 0 THEN [consensus |-> 0, confidence |-> 0]
        ELSE [consensus_risk |-> Frac(weighted_sum, total_weight),
              agreement_level |-> Frac(Scale * Scale * n * Abs(total_weight) - deviation_sum,
                                       Scale * Scale * n * Abs(total_weight)),
              confidence |-> Frac(total_weight, n),
              num_reviews |-> n]

InitWeighted ==
    /\ workflows = << >>
    /\ assignments = << >>
    /\ reviews = << >>
    /\ decisions = << >>
    /\ events = EmptyBag
    /\ votes = << >>
    /\ dirty = FALSE
    /\ early = {}
    /\ \E revs \in WeightedLists :
          calls = [c \in Clients |->
                     IF c = "c1"
                     THEN [IdleCall EXCEPT !.state = "pending",
                                           !.op = "calculate_weighted_consensus",
                                           !.arg = revs]
                     ELSE IdleCall]

RunCalculateWeightedConsensus(c) ==
    /\ calls[c].state = "pending"
    /\ calls[c].op = "calculate_weighted_consensus"
    /\ calls' = [calls EXCEPT ![c].state = "done",
                              ![c].result = CalculateWeightedConsensus(calls[c].arg)]
    /\ UNCHANGED << workflows, assignments, reviews, decisions, events, votes, dirty, early >>

NextWeighted == RunCalculateWeightedConsensus("c1")

SpecWeighted == InitWeighted /\ [][NextWeighted]_vars

WeightedDone(c) ==
    /\ calls[c].op = "calculate_weighted_consensus"
    /\ calls[c].state = "done"

\* C28: weighted consensus on a non-empty list of Reviews whose confidence
\* scores are all 0 returns {consensus: 0, confidence: 0}.
C28_ZeroWeightReturnsZero ==
    \A c \in Clients :
        ( /\ WeightedDone(c)
          /\ calls[c].arg # << >>
          /\ \A i \in DOMAIN calls[c].arg : calls[c].arg[i].confidence_score = Some(0) )
        => calls[c].result = [consensus |-> 0, confidence |-> 0]
\* one Review of risk 0.9 and confidence 0: the result is the ordinary one,
\* computed with weight 0.5
C28_ZeroCountedAsHalf ==
    \E c \in Clients :
        /\ WeightedDone(c)
        /\ calls[c].arg = << [risk_assessment |-> Some(90), confidence_score |-> Some(0)] >>
        /\ calls[c].result = [consensus_risk |-> Frac(90 * 50, 50),
                              agreement_level |-> Frac(Scale * Scale * 50, Scale * Scale * 50),
                              confidence |-> Frac(50, 1),
                              num_reviews |-> 1]

\* the weight the specification gives a Review: its confidence score, 0.5
\* when it has none
StatedWeight(review) ==
    IF review.confidence_score = None THEN 50 ELSE review.confidence_score[1]
StatedTotalWeight(revs) == SumSeq([i \in DOMAIN revs |-> StatedWeight(revs[i])])
StatedWeightedSum(revs) ==
    SumSeq([i \in DOMAIN revs |-> revs[i].risk_assessment[1] * StatedWeight(revs[i])])
\* sum(|risk - weightedAverage| * confidence) * total weight
StatedDeviationSum(revs) ==
    SumSeq([i \in DOMAIN revs |->
              Abs(revs[i].risk_assessment[1] * StatedTotalWeight(revs)
                  - StatedWeightedSum(revs)) * StatedWeight(revs[i])])
\* C29: for every list of scored Reviews with total weight > 0, the weight of
\* a Review being its confidence score, or 0.5 when it has none, the result
\* has weightedAverage = sum(risk * weight) / sum(weight) and
\* agreementLevel = 1 - (sum(|risk - weightedAverage| * weight) / count) / 1.0.
C29_WeightedByOwnConfidence ==
    \A c \in Clients :
        ( /\ WeightedDone(c)
          /\ \A i \in DOMAIN calls[c].arg : calls[c].arg[i].risk_assessment # None
          /\ StatedTotalWeight(calls[c].arg) > 0 )
        => /\ DOMAIN calls[c].result
                 = {"consensus_risk", "agreement_level", "confidence", "num_reviews"}
           /\ Lowest(calls[c].result.consensus_risk)
                 = Lowest(Frac(StatedWeightedSum(calls[c].arg),
                               StatedTotalWeight(calls[c].arg)))
           /\ Lowest(calls[c].result.agreement_level)
                 = Lowest(Frac(Scale * Scale * Len(calls[c].arg) * StatedTotalWeight(calls[c].arg)
                                  - StatedDeviationSum(calls[c].arg),
                               Scale * Scale * Len(calls[c].arg) * StatedTotalWeight(calls[c].arg)))
\* risk 0.1 with confidence 1.0 and risk 0.9 with confidence 0: the second
\* Review is weighted 0.5 and the weighted average is 0.55 / 1.5, not 0.1
C29_ZeroConfidenceWeighsHalf ==
    \E c \in Clients :
        /\ WeightedDone(c)
        /\ calls[c].arg = << [risk_assessment |-> Some(10), confidence_score |-> Some(100)],
                             [risk_assessment |-> Some(90), confidence_score |-> Some(0)] >>
        /\ calls[c].result.consensus_risk = Frac(10 * 100 + 90 * 50, 100 + 50)
        /\ calls[c].result.confidence = Frac(100 + 50, 2)
\* what holds instead: the formulas hold whenever no Review has confidence 0
C29_WeightedUnlessZeroConfidence ==
    \A c \in Clients :
        ( /\ WeightedDone(c)
          /\ \A i \in DOMAIN calls[c].arg :
                /\ calls[c].arg[i].risk_assessment # None
                /\ calls[c].arg[i].confidence_score # Some(0)
          /\ StatedTotalWeight(calls[c].arg) > 0 )
        => /\ DOMAIN calls[c].result
                 = {"consensus_risk", "agreement_level", "confidence", "num_reviews"}
           /\ Lowest(calls[c].result.consensus_risk)
                 = Lowest(Frac(StatedWeightedSum(calls[c].arg),
                               StatedTotalWeight(calls[c].arg)))
           /\ Lowest(calls[c].result.agreement_level)
                 = Lowest(Frac(Scale * Scale * Len(calls[c].arg) * StatedTotalWeight(calls[c].arg)
                                  - StatedDeviationSum(calls[c].arg),
                               Scale * Scale * Len(calls[c].arg) * StatedTotalWeight(calls[c].arg)))

\* ======================================================= auto-assignment ====
\* create_workflow with auto_assign on a store that already holds an earlier
\* workflow: each user is unassigned there, assigned without a review yet, or
\* has submitted a review with confidence 0.8 or without a confidence.
MaxMinReviewers == 4

PriorSettings ==
    [min_reviewers |-> 3, require_consensus |-> TRUE, consensus_threshold |-> 70,
     auto_assign |-> FALSE, expertise_required |-> {}]

Histories == [Users -> {"none", "active", "confident", "unsure"}]

AutoSettings ==
    { [min_reviewers |-> m, require_consensus |-> TRUE, consensus_threshold |-> 70,
       auto_assign |-> TRUE, expertise_required |-> e] :
      m \in 1..MaxMinReviewers, e \in SUBSET {"ml", "bio"} }

RECURSIVE AssignHistory(_, _, _)
AssignHistory(d, h, u) ==
    IF u \notin Users THEN d
    ELSE AssignHistory(IF h[u] = "none" THEN d ELSE AssignReviewer(d, 1, u, REVIEWER).db,
                       h, u + 1)

RECURSIVE SubmitHistory(_, _, _)
SubmitHistory(d, h, aid) ==
    IF aid \notin DOMAIN d.assignments THEN d
    ELSE LET kind == h[d.assignments[aid].reviewer_id]
             review_data ==
                 IF kind = "confident"
                 THEN [risk_assessment |-> Some(10), confidence_score |-> Some(80),
                       recommendation |-> Some("approve")]
                 ELSE [risk_assessment |-> Some(90), confidence_score |-> None,
                       recommendation |-> Some("reject")]
         IN  SubmitHistory(IF kind = "active" THEN d
                           ELSE SubmitReview(d, aid, review_data, TRUE).db,
                           h, aid + 1)

HistoryDB(h) ==
    SubmitHistory(AssignHistory(CreateWorkflow(EmptyDB, PriorSettings, << >>).db, h, 1), h, 1)

InitAutoAssign ==
    \E h \in Histories, settings \in AutoSettings :
        /\ workflows = HistoryDB(h).workflows
        /\ assignments = HistoryDB(h).assignments
        /\ reviews = HistoryDB(h).reviews
        /\ decisions = HistoryDB(h).decisions
        /\ events = HistoryDB(h).events
        /\ votes = << >>
        /\ dirty = FALSE
        /\ early = HistoryDB(h).early
        /\ calls = [c \in Clients |->
                      IF c = "c1"
                      THEN [IdleCall EXCEPT !.state = "pending", !.op = "create_workflow",
                                            !.arg = settings]
                      ELSE IdleCall]

\* POST /api/workflows with the settings of the request
RunCreateWorkflowAuto(c) ==
    /\ calls[c].state = "pending"
    /\ calls[c].op = "create_workflow"
    /\ \E order \in {s \in [1..Cardinality(Eligible(calls[c].arg.expertise_required)) -> Users] :
                        Range(s) = Eligible(calls[c].arg.expertise_required)} :
          LET r == CreateWorkflow(DB, calls[c].arg, order)
          IN  /\ Store(r.db)
              /\ Return(c, r)

NextAutoAssign == RunCreateWorkflowAuto("c1")

SpecAutoAssign == InitAutoAssign /\ [][NextAutoAssign]_vars

Min(a, b) == IF a < b THEN a ELSE b
\* the reviewers of the Assignments a step adds, in the order it adds them
NewReviewers(old, new) ==
    [k \in 1..(Len(new) - Len(old)) |-> new[Len(old) + k].reviewer_id]
NewRoles(old, new) ==
    [k \in 1..(Len(new) - Len(old)) |-> new[Len(old) + k].role]

RanksBefore(d, req, u, v) ==
    \/ FracGT(CalculateReviewerScore(d, u, req), CalculateReviewerScore(d, v, req))
    \/ /\ FracGE(CalculateReviewerScore(d, u, req), CalculateReviewerScore(d, v, req))
       /\ FracGE(CalculateReviewerScore(d, v, req), CalculateReviewerScore(d, u, req))
       /\ u < v
\* C31: auto-assignment takes the candidates in the order of descending
\* score and, among equal scores, ascending reviewer identifier: each
\* assigned reviewer ranks before the one assigned after it and before every
\* eligible user left out, whatever the order in which the store returned
\* the eligible users.
C31_TiesByReviewerId ==
    [][\A c \in Clients :
          (Ran(c, "create_workflow") /\ calls[c].arg.auto_assign)
          => LET req == calls[c].arg.expertise_required
                 chosen == NewReviewers(assignments, assignments')
             IN  \A k \in DOMAIN chosen :
                    /\ k < Len(chosen) => RanksBefore(DB, req, chosen[k], chosen[k + 1])
                    /\ \A v \in Eligible(req) \ Range(chosen) :
                          RanksBefore(DB, req, chosen[k], v)]_vars
\* empty store apart from the earlier workflow, expertise "ml", min_reviewers
\* 1: users 1 and 2 both score 10 and user 2 is made lead reviewer
C31_LeadFollowsStoreOrder ==
    \E c \in Clients :
        /\ calls[c].op = "create_workflow"
        /\ calls[c].state = "done"
        /\ calls[c].arg.min_reviewers = 1
        /\ calls[c].arg.expertise_required = {"ml"}
        /\ reviews = << >>
        /\ assignments = << [workflow_id |-> 2, reviewer_id |-> 2, role |-> LEAD_REVIEWER,
                             completed |-> FALSE] >>

\* ================================================== auto-assign retried ====
\* _auto_assign_reviewers run on a workflow that exists already and may have
\* assignments: the workflow is drawn with its min_reviewers and the history
\* of each user on it, the call with its required expertise.
RetryDB(m, h) ==
    SubmitHistory(
        AssignHistory(CreateWorkflow(EmptyDB, [PriorSettings EXCEPT !.min_reviewers = m],
                                     << >>).db, h, 1),
        h, 1)

InitAutoRetry ==
    \E h \in Histories, m \in 1..MaxMinReviewers, e \in SUBSET {"ml", "bio"} :
        /\ workflows = RetryDB(m, h).workflows
        /\ assignments = RetryDB(m, h).assignments
        /\ reviews = RetryDB(m, h).reviews
        /\ decisions = RetryDB(m, h).decisions
        /\ events = RetryDB(m, h).events
        /\ votes = << >>
        /\ dirty = FALSE
        /\ early = RetryDB(m, h).early
        /\ calls = [c \in Clients |->
                      IF c = "c1"
                      THEN [IdleCall EXCEPT !.state = "pending",
                                            !.op = "auto_assign_reviewers",
                                            !.arg = [workflow_id |-> 1,
                                                     expertise_required |-> e]]
                      ELSE IdleCall]

RunAutoAssignReviewers(c) ==
    /\ calls[c].state = "pending"
    /\ calls[c].op = "auto_assign_reviewers"
    /\ \E order \in {s \in [1..Cardinality(Eligible(calls[c].arg.expertise_required)) -> Users] :
                        Range(s) = Eligible(calls[c].arg.expertise_required)} :
          LET r == AutoAssignReviewers(DB, calls[c].arg.workflow_id,
                                       calls[c].arg.expertise_required, order)
          IN  /\ Store(r.db)
              /\ Return(c, r)

NextAutoRetry == RunAutoAssignReviewers("c1")

SpecAutoRetry == InitAutoRetry /\ [][NextAutoRetry]_vars

\* u is among the first m candidates however ties are ordered: fewer than m
\* other eligible users score at least as much
SurelySelected(d, req, m, u) ==
    /\ u \in Eligible(req)
    /\ Cardinality({v \in Eligible(req) \ {u} :
                       FracGE(CalculateReviewerScore(d, v, req),
                              CalculateReviewerScore(d, u, req))}) < m
AssignedTo(asg, wid, u) ==
    \E i \in DOMAIN asg : asg[i].workflow_id = wid /\ asg[i].reviewer_id = u

\* C32: auto-assignment run on a workflow where a selected candidate is
\* already assigned does not fail, and afterwards every selected candidate
\* has an Assignment on the workflow.
C32_RetrySkipsDuplicates ==
    [][\A c \in Clients :
          Ran(c, "auto_assign_reviewers")
          => LET wid == calls[c].arg.workflow_id
                 req == calls[c].arg.expertise_required
             IN  /\ calls'[c].result = "ok"
                 /\ \A u \in Users :
                       SurelySelected(DB, req, workflows[wid].min_reviewers, u)
                       => AssignedTo(assignments', wid, u)]_vars
\* workflow of min_reviewers 2 where user 2 has submitted a confident review
\* (score 14) and user 1 has no assignment (score 10), expertise "ml": the
\* call fails on user 2 and user 1 is left unassigned
C32_RetryFails ==
    \E c \in Clients :
        /\ calls[c].op = "auto_assign_reviewers"
        /\ calls[c].state = "done"
        /\ calls[c].arg.expertise_required = {"ml"}
        /\ workflows[1].min_reviewers = 2
        /\ calls[c].result = "DuplicateAssignment"
        /\ Len(assignments) = 1
        /\ assignments[1].reviewer_id = 2
        /\ assignments[1].completed
        /\ reviews[1].confidence_score = Some(80)

\* ======================================================= reviewer score ====
\* _calculate_reviewer_score as a function of the store and its arguments:
\* the reviewer has, on each of up to MaxPrior earlier workflows, no
\* assignment, an open one, or a submitted review with confidence 0.8 or
\* without a confidence.
MaxPrior == 2

ScoreHistories ==
    UNION { [1..n -> {"none", "active", "confident", "unsure"}] : n \in 0..MaxPrior }

\* the next workflow, with another user assigned to it, who has submitted a
\* review on the first of them
WithBystander(d, rid) ==
    LET other == (rid % Cardinality(Users)) + 1
        assigned(d0) == AssignReviewer(d0, Len(d0.workflows), other, REVIEWER).db
        submitted(d1) ==
            IF Len(d1.workflows) > 1 THEN d1
            ELSE SubmitReview(d1, Len(d1.assignments),
                              [risk_assessment |-> Some(50),
                               confidence_score |-> Some(100),
                               recommendation |-> None], TRUE).db
    IN  submitted(assigned(CreateWorkflow(d, PriorSettings, << >>).db))

\* the reviewer's assignment on the last workflow, if the history has one
AssignOwn(d, rid, kind) ==
    IF kind = "none" THEN d
    ELSE AssignReviewer(d, Len(d.workflows), rid, REVIEWER).db

\* the reviewer's review on that assignment, if the history has one
SubmitOwn(d, kind) ==
    LET review_data ==
            IF kind = "confident"
            THEN [risk_assessment |-> Some(10), confidence_score |-> Some(80),
                  recommendation |-> Some("approve")]
            ELSE [risk_assessment |-> Some(90), confidence_score |-> None,
                  recommendation |-> Some("reject")]
    IN  IF kind \in {"confident", "unsure"}
        THEN SubmitReview(d, Len(d.assignments), review_data, TRUE).db
        ELSE d

RECURSIVE ScoreDB(_, _, _)
ScoreDB(d, rid, hs) ==
    IF hs = << >> THEN d
    ELSE ScoreDB(SubmitOwn(AssignOwn(WithBystander(d, rid), rid, Head(hs)), Head(hs)),
                 rid, Tail(hs))

InitScore ==
    \E rid \in Users, hs \in ScoreHistories, e \in SUBSET {"ml", "bio"} :
        /\ workflows = ScoreDB(EmptyDB, rid, hs).workflows
        /\ assignments = ScoreDB(EmptyDB, rid, hs).assignments
        /\ reviews = ScoreDB(EmptyDB, rid, hs).reviews
        /\ decisions = ScoreDB(EmptyDB, rid, hs).decisions
        /\ events = ScoreDB(EmptyDB, rid, hs).events
        /\ votes = << >>
        /\ dirty = FALSE
        /\ early = ScoreDB(EmptyDB, rid, hs).early
        /\ calls = [c \in Clients |->
                      IF c = "c1"
                      THEN [IdleCall EXCEPT !.state = "pending",
                                            !.op = "calculate_reviewer_score",
                                            !.arg = [reviewer |-> rid, history |-> hs,
                                                     expertise_required |-> e]]
                      ELSE IdleCall]

RunCalculateReviewerScore(c) ==
    /\ calls[c].state = "pending"
    /\ calls[c].op = "calculate_reviewer_score"
    /\ calls' = [calls EXCEPT ![c].state = "done",
                              ![c].result = CalculateReviewerScore(DB, calls[c].arg.reviewer,
                                                calls[c].arg.expertise_required)]
    /\ UNCHANGED << workflows, assignments, reviews, decisions, events, votes, dirty, early >>

NextScore == RunCalculateReviewerScore("c1")

SpecScore == InitScore /\ [][NextScore]_vars

CountOf(hs, kinds) == Cardinality({w \in DOMAIN hs : hs[w] \in kinds})
MaxAggregated == 3
MaxFindings == 2

Findings == { [description |-> "a"], [description |-> "b"] }

FindingLists == {None} \cup UNION { [1..n -> Findings] : n \in 0..MaxFindings }

AggregatedLists ==
    UNION { [1..n -> [findings : FindingLists]] : n \in 0..MaxAggregated }

\* all_findings: the findings lists of the Reviews, one after the other
RECURSIVE AllFindings(_)
AllFindings(revs) ==
    IF revs = << >> THEN << >>
    ELSE (IF Head(revs).findings = None THEN << >> ELSE Head(revs).findings)
         \o AllFindings(Tail(revs))

\* the keys of finding_counts in insertion order
RECURSIVE FindingKeys(_)
FindingKeys(all) ==
    IF all = << >> THEN << >>
    ELSE LET rest == FindingKeys(SubSeq(all, 1, Len(all) - 1))
         IN  IF all[Len(all)] \in Range(rest) THEN rest ELSE Append(rest, all[Len(all)])

AggregateReviewFindings(revs) ==
    LET all_findings == AllFindings(revs)
        finding_counts(f) ==
            Cardinality({i \in DOMAIN all_findings : all_findings[i] = f})
        IsCommon(f) == 2 * finding_counts(f) >= Len(revs)
        NotCommon(f) == ~IsCommon(f)
    IN  [common_issues |-> SelectSeq(FindingKeys(all_findings), IsCommon),
         unique_issues |-> SelectSeq(FindingKeys(all_findings), NotCommon),
         conditions |-> << >>,
         strengths |-> << >>]

InitAggregate ==
    /\ workflows = << >>
    /\ assignments = << >>
    /\ reviews = << >>
    /\ decisions = << >>
    /\ events = EmptyBag
    /\ votes = << >>
    /\ dirty = FALSE
    /\ early = {}
    /\ \E revs \in AggregatedLists :
          calls = [c \in Clients |->
                     IF c = "c1"
                     THEN [IdleCall EXCEPT !.state = "pending",
                                           !.op = "aggregate_review_findings",
                                           !.arg = revs]
                     ELSE IdleCall]

RunAggregateReviewFindings(c) ==
    /\ calls[c].state = "pending"
    /\ calls[c].op = "aggregate_review_findings"
    /\ calls' = [calls EXCEPT ![c].state = "done",
                              ![c].result = AggregateReviewFindings(calls[c].arg)]
    /\ UNCHANGED << workflows, assignments, reviews, decisions, events, votes, dirty, early >>

NextAggregate == RunAggregateReviewFindings("c1")

SpecAggregate == InitAggregate /\ [][NextAggregate]_vars

\* the Reviews of the list whose findings contain f
ReviewsWith(revs, f) ==
    {i \in DOMAIN revs : revs[i].findings # None /\ f \in Range(revs[i].findings)}
\* C34: the common issues are exactly the findings contained in the finding
\* lists of at least half of the Reviews, a Review counting once however
\* often it lists the finding; the unique issues are exactly the other
\* findings that occur.
C34_CommonIffHalfOfReviews ==
    \A c \in Clients :
        (calls[c].op = "aggregate_review_findings" /\ calls[c].state = "done")
        => LET revs == calls[c].arg
               occurring == {f \in Findings : ReviewsWith(revs, f) # {}}
               common == {f \in occurring :
                             2 * Cardinality(ReviewsWith(revs, f)) >= Len(revs)}
           IN  /\ Range(calls[c].result.common_issues) = common
               /\ Range(calls[c].result.unique_issues) = occurring \ common
\* three Reviews, the first listing finding a twice, the others nothing:
\* a is a common issue although one Review of three contains it
C34_RepeatedFindingIsCommon ==
    \E c \in Clients :
        /\ calls[c].op = "aggregate_review_findings"
        /\ calls[c].state = "done"
        /\ calls[c].arg = << [findings |-> << [description |-> "a"], [description |-> "a"] >>],
                             [findings |-> << >>],
                             [findings |-> None] >>
        /\ calls[c].result.common_issues = << [description |-> "a"] >>
        /\ calls[c].result.unique_issues = << >>
\* what holds instead: a finding is common iff its occurrences, repetitions
\* within a Review included, number at least half the number of Reviews
C34_CommonIffHalfOccurrences ==
    \A c \in Clients :
        (calls[c].op = "aggregate_review_findings" /\ calls[c].state = "done")
        => LET all == AllFindings(calls[c].arg)
               common == {f \in Range(all) :
                             2 * Cardinality({i \in DOMAIN all : all[i] = f})
                                >= Len(calls[c].arg)}
           IN  /\ Range(calls[c].result.common_issues) = common
               /\ Range(calls[c].result.unique_issues) = Range(all) \ common

\* ================================== votes and reports beside the workflow ====
\* The three endpoints together with vote_on_review and the two reports of
\* ConsensusManager, which a caller runs on the Reviews it has read for a
\* workflow.
MaxVotes == 1

RequestVoteBounded(c) ==
    \E review_id \in DOMAIN reviews, voter_id \in Voters, payload \in VotePayloads :
        /\ \/ Len(votes) < MaxVotes
           \/ ExistingVote(DB, review_id, voter_id) # 0
        /\ Accept(c, "vote_on_review", << review_id, voter_id, payload >>)

RequestIdentifyOutliers(c) ==
    \E wid \in DOMAIN workflows :
        Accept(c, "identify_outliers",
               [i \in DOMAIN WorkflowReviews(DB, wid) |->
                  [risk_assessment |-> WorkflowReviews(DB, wid)[i].risk_assessment]])

RequestWeightedConsensus(c) ==
    \E wid \in DOMAIN workflows :
        Accept(c, "calculate_weighted_consensus",
               [i \in DOMAIN WorkflowReviews(DB, wid) |->
                  [risk_assessment |-> WorkflowReviews(DB, wid)[i].risk_assessment,
                   confidence_score |-> WorkflowReviews(DB, wid)[i].confidence_score]])

StepAdvisory(c) ==
    \/ RequestCreateWorkflow(c)
    \/ RequestAssignReviewer(c)
    \/ RequestSubmitReview(c)
    \/ RequestVoteBounded(c)
    \/ RequestIdentifyOutliers(c)
    \/ RequestWeightedConsensus(c)
    \/ RunCreateWorkflow(c)
    \/ RunAssignReviewer(c)
    \/ RunSubmitReview(c)
    \/ RunVote(c)
    \/ RunIdentifyOutliers(c)
    \/ RunCalculateWeightedConsensus(c)

NextAdvisory == StepAdvisory("c1")

SpecAdvisory == Init /\ [][NextAdvisory]_vars

StatusKept(w) == workflows'[w].status = workflows[w].status
\* C35: the status of an existing workflow changes only in a submit_review
\* step; a step of assign_reviewer, vote_on_review, identify_outliers or
\* calculate_weighted_consensus leaves every workflow, every existing
\* Assignment, every Review and every Decision as it was.
C35_StatusOnlyBySubmit ==
    [][ /\ \A w \in DOMAIN workflows :
              StatusKept(w) \/ \E c \in Clients : Ran(c, "submit_review")
        /\ \A c \in Clients :
              ( \/ Ran(c, "assign_reviewer")
                \/ Ran(c, "vote_on_review")
                \/ Ran(c, "identify_outliers")
                \/ Ran(c, "calculate_weighted_consensus") )
              => /\ workflows' = workflows
                 /\ SubSeq(assignments', 1, Len(assignments)) = assignments
                 /\ reviews' = reviews
                 /\ decisions' = decisions
      ]_vars
\* a vote was cast and stored on a Review of a workflow that has reached
\* consensus and has its Decision
C35_Witness ==
    \E c \in Clients :
        /\ calls[c].op = "vote_on_review"
        /\ calls[c].state = "done"
        /\ votes # << >>
        /\ decisions # << >>
        /\ workflows[assignments[reviews[votes[1].review_id].assignment_id].workflow_id].status
              = CONSENSUS_REACHED

\* workflow w exists and at least min_reviewers of its assignments are completed
AtQuorum(w) ==
    /\ w \in DOMAIN workflows
    /\ CompletedCount(w) >= workflows[w].min_reviewers
Evaluated(w) ==
    /\ w \in DOMAIN workflows
    /\ workflows[w].status \in {COMPLETED, CONSENSUS_REACHED, DISPUTED}
\* C36: in every state a workflow with at least min_reviewers completed
\* assignments has status COMPLETED, CONSENSUS_REACHED or DISPUTED, never
\* PENDING or IN_PROGRESS (the status is set in the step that completes the
\* quorum, so it is reached eventually as well).
C36_QuorumActedOn ==
    \A w \in DOMAIN workflows : AtQuorum(w) => Evaluated(w)
\* a workflow created with min_reviewers 0: no assignment, no review, and
\* the quorum of zero is never evaluated
C36_EmptyQuorumPending ==
    \E w \in DOMAIN workflows :
        /\ workflows[w].min_reviewers = 0
        /\ AssignmentCount(w) = 0
        /\ workflows[w].status = PENDING
        /\ \A c \in Clients : calls[c].state # "pending"
\* what holds instead: a workflow with min_reviewers >= 1 that is at quorum
\* has been evaluated
C36_ValidQuorumActedOn ==
    \A w \in DOMAIN workflows :
        (AtQuorum(w) /\ workflows[w].min_reviewers >= 1) => Evaluated(w)

\* C37: every Decision of a require_consensus workflow carries a consensus
\* score, and that score is >= the workflow's consensus_threshold; every
\* Decision of a workflow without require_consensus carries no score.
C37_DecisionScoreMeetsThreshold ==
    \A i \in DOMAIN decisions :
        LET workflow == workflows[decisions[i].workflow_id]
        IN  IF workflow.require_consensus
            THEN /\ decisions[i].consensus_score # None
                 /\ FracGE(decisions[i].consensus_score[1],
                           Frac(workflow.consensus_threshold, Scale))
            ELSE decisions[i].consensus_score = None
\* a workflow of threshold 0.4 that was disputed (consensus 0.36) and whose
\* third review brought the consensus to 0.43: one Decision, made at the
\* third review
C37_Witness ==
    /\ Len(workflows) = 1
    /\ workflows[1].require_consensus
    /\ workflows[1].consensus_threshold = 40
    /\ EventCount("DiscussionStarted", 1) = 1
    /\ Len(reviews) = 3
    /\ Len(decisions) = 1
    /\ decisions[1].consensus_score # None
    /\ FracGT(decisions[1].consensus_score[1], Frac(40, Scale))
    /\ FracGT(Frac(1, 1), decisions[1].consensus_score[1])
\* a workflow without require_consensus finalized with no score
C37_WitnessNoConsensus ==
    /\ Len(workflows) = 1
    /\ ~workflows[1].require_consensus
    /\ Len(decisions) >= 1
    /\ decisions[1].consensus_score = None

\* =================================================== order of submission ====
\* Two workflows with the same settings and the same three reviewers; every
\* reviewer submits the same review on both, in any order and interleaving.
OrderSettings ==
    { [min_reviewers |-> 3, require_consensus |-> FALSE, consensus_threshold |-> 70,
       auto_assign |-> FALSE, expertise_required |-> {}],
      [min_reviewers |-> 3, require_consensus |-> TRUE, consensus_threshold |-> 40,
       auto_assign |-> FALSE, expertise_required |-> {}],
      [min_reviewers |-> 3, require_consensus |-> TRUE, consensus_threshold |-> 70,
       auto_assign |-> FALSE, expertise_required |-> {}] }

\* the review_data of each reviewer
OrderPayload ==
    (1 :> [risk_assessment |-> Some(5), confidence_score |-> None, recommendation |-> None])
    @@ (2 :> [risk_assessment |-> Some(25), confidence_score |-> None, recommendation |-> None])
    @@ (3 :> [risk_assessment |-> Some(90), confidence_score |-> None, recommendation |-> None])

RECURSIVE AssignPanel(_, _, _)
AssignPanel(d, wid, rid) ==
    IF rid \notin Users THEN d
    ELSE AssignPanel(AssignReviewer(d, wid, rid, REVIEWER).db, wid, rid + 1)

OrderDB(settings) ==
    LET d1 == AssignPanel(CreateWorkflow(EmptyDB, settings, << >>).db, 1, 1)
    IN  AssignPanel(CreateWorkflow(d1, settings, << >>).db, 2, 1)

InitOrder ==
    /\ \E settings \in OrderSettings :
          /\ workflows = OrderDB(settings).workflows
          /\ assignments = OrderDB(settings).assignments
          /\ events = OrderDB(settings).events
    /\ reviews = << >>
    /\ decisions = << >>
    /\ votes = << >>
    /\ dirty = FALSE
    /\ early = {}
    /\ calls = [c \in Clients |-> IdleCall]

OrderRequestSubmit(c) ==
    \E aid \in DOMAIN assignments :
        /\ ~assignments[aid].completed
        /\ Accept(c, "submit_review", << aid >>)

OrderRunSubmit(c) ==
    /\ calls[c].state = "pending"
    /\ calls[c].op = "submit_review"
    /\ LET r == SubmitReview(DB, calls[c].arg[1],
                             OrderPayload[assignments[calls[c].arg[1]].reviewer_id], TRUE)
       IN  /\ Store(r.db)
           /\ Return(c, r)

NextOrder == \E c \in Clients : OrderRequestSubmit(c) \/ OrderRunSubmit(c)

SpecOrder == InitOrder /\ [][NextOrder]_vars

\* every assignment of workflow w is completed, and there are exactly
\* min_reviewers of them
FullySubmitted(w) ==
    /\ AssignmentCount(w) = workflows[w].min_reviewers
    /\ CompletedCount(w) = AssignmentCount(w)
\* how many Reviews of workflow w carry the data of Review r
SubmissionsLike(w, r) ==
    Cardinality({i \in DOMAIN reviews :
                    /\ assignments[reviews[i].assignment_id].workflow_id = w
                    /\ reviews[i].reviewer_id = reviews[r].reviewer_id
                    /\ reviews[i].risk_assessment = reviews[r].risk_assessment
                    /\ reviews[i].confidence_score = reviews[r].confidence_score
                    /\ reviews[i].recommendation = reviews[r].recommendation})
LabelsOf(w) == {decisions[i].decision : i \in DecisionsOf(w)}
C38_StatusOrderIndependent ==
    \A w1, w2 \in DOMAIN workflows :
        (FullySubmitted(w1) /\ FullySubmitted(w2))
        => /\ workflows[w1].status = workflows[w2].status
           /\ Cardinality(DecisionsOf(w1)) = Cardinality(DecisionsOf(w2))

\* C39: identify_outliers returns the empty list for every list of at most
\* five reviews, whatever their risk assessments.
C39_NoOutliersUpToFive ==
    \A c \in Clients :
        ( /\ calls[c].op = "identify_outliers"
          /\ calls[c].state = "done"
          /\ Len(calls[c].arg) <= 5 )
        => calls[c].result = << >>

\* five reviews, the first one at 0.1 against four at 0.5: exactly two
\* standard deviations below the mean, reported with z_score
\* -2.0000000000000004
C39_FlaggedAmongFive ==
    \E c \in Clients :
        /\ calls[c].op = "identify_outliers"
        /\ calls[c].state = "done"
        /\ Len(calls[c].arg) = 5
        /\ RisksOf(calls[c].arg) = << 10, 50, 50, 50, 50 >>
        /\ calls[c].result = << 1 >>

\* what holds: nothing is reported among at most four reviews, and among five
\* only a review exactly two standard deviations from the mean
C39_NoOutliersUpToFour ==
    \A c \in Clients :
        ( /\ calls[c].op = "identify_outliers"
          /\ calls[c].state = "done"
          /\ Len(calls[c].arg) <= 5 )
        => /\ \A k \in DOMAIN calls[c].result :
                ~ExceedsTwoSigma(calls[c].arg, calls[c].result[k])
           /\ Len(calls[c].arg) <= 4 => calls[c].result = << >>

=============================================================================
